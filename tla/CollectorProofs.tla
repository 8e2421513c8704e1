--------------------------- MODULE CollectorProofs ---------------------------
(***************************************************************************)
(* Overlapping sweeps, for any number of collectors, entries, stamps,      *)
(* errors and kills: an entry is recorded once, a stamp admits one entry,  *)
(* only verified forwarders are addressed, and the collector implements    *)
(* Intake.                                                                 *)
(*                                                                         *)
(* The argument.  The lease is not used: what holds rests on the durable   *)
(* tables and on the counters.  A collector that got past a step of        *)
(* collectOnce can rely on what the step made durable (Holds), because     *)
(* nothing durable is ever taken back (Grows): entries, artifacts,         *)
(* contexts and deliveries stay, a consumed stamp keeps its consumer, and  *)
(* the outcome of a recorded entry is final.                               *)
(***************************************************************************)
EXTENDS Collector, SequenceTheorems, TLAPS

\* In a module of this size the provers need more than their default time.
USE SMTT(30), ZenonT(30)

ColState == [pc : Pc, todo : SUBSET Mails, mail : Mails \cup {NoMail},
             reason : Reason \cup {"none"}]

Verified(m) == Stamp[m] \in Decisions /\ stamps[Stamp[m]].by = m

\* What a collector in state st relies on.
Holds(st) ==
    /\ st.todo \subseteq maildir
    /\ (st.mail = NoMail) <=> (st.pc \in {"stopped", "ready", "sweep"})
    /\ st.mail # NoMail => st.mail \in maildir
    /\ st.mail # NoMail /\ st.pc # "seal" => st.mail \in sealed
    /\ st.mail # NoMail /\ st.pc \notin {"seal", "context"} => st.mail \in contexts
    /\ st.pc \in {"destination", "examine", "enqueue", "notify"} => Verified(st.mail)
    /\ st.pc = "reject" => st.reason \in Reason
    /\ st.pc = "reject" /\ st.reason # "admission_stamp_invalid" => Verified(st.mail)
    /\ st.pc = "notify" => /\ st.mail \in deliveries
                           /\ rejected[st.mail] # <<"admission_stamp_invalid">>

Collecting ==
    /\ col \in [Collectors -> ColState]
    /\ \A c \in Collectors : Holds(col[c])

LeaseOK == lease \in [owner : Collectors \cup {Nobody, Gone}, expired : BOOLEAN]

StampsOK == stamps \in [Decisions -> [by : Mails \cup {NoMail}, expired : BOOLEAN]]

\* The durable tables, one within the other.
Nested ==
    /\ maildir \subseteq Mails
    /\ sealed \subseteq maildir
    /\ contexts \subseteq sealed
    /\ deliveries \subseteq contexts
    /\ addressed \subseteq deliveries
    /\ notices \subseteq deliveries
    /\ inactive \subseteq Decisions
    /\ faults \in 0 .. MaxFaults

\* The outcome of an entry: none before it is recorded, one afterwards.
Outcomes ==
    /\ queued \in [Mails -> Nat]
    /\ rejected \in [Mails -> Seq(Reason)]
    /\ OneOutcomePerEntry
    /\ StampAdmitsOneEntry
    /\ OnlyVerifiedForwardersAreAddressed

IInv == Collecting /\ LeaseOK /\ StampsOK /\ Nested /\ Outcomes

-----------------------------------------------------------------------------
(***************************************************************************)
(* Nothing durable is taken back                                           *)
(***************************************************************************)
Grows ==
    /\ maildir \subseteq maildir'
    /\ sealed \subseteq sealed'
    /\ contexts \subseteq contexts'
    /\ deliveries \subseteq deliveries'
    /\ \A d \in Decisions : stamps[d].by # NoMail => stamps'[d].by = stamps[d].by
    /\ \A m \in deliveries : queued'[m] = queued[m] /\ rejected'[m] = rejected[m]

LEMMA VerifiedStays ==
    ASSUME Grows, NEW m \in Mails, Verified(m)
    PROVE  Verified(m)'
<1>1. Stamp[m] \in Decisions /\ stamps[Stamp[m]].by = m /\ m # NoMail
  BY CollectorAssumption DEF Verified
<1> QED
  BY <1>1 DEF Grows, Verified

LEMMA HoldsStays ==
    ASSUME Grows, NEW st \in ColState, Holds(st)
    PROVE  Holds(st)'
<1>1. /\ st.todo \subseteq maildir'
      /\ (st.mail = NoMail) <=> (st.pc \in {"stopped", "ready", "sweep"})
      /\ st.mail # NoMail => st.mail \in maildir'
      /\ st.mail # NoMail /\ st.pc # "seal" => st.mail \in sealed'
      /\ st.mail # NoMail /\ st.pc \notin {"seal", "context"} => st.mail \in contexts'
      /\ st.pc = "reject" => st.reason \in Reason
  BY DEF Holds, Grows
<1>2. st.pc = "notify" => /\ st.mail \in deliveries'
                          /\ rejected'[st.mail] # <<"admission_stamp_invalid">>
  BY DEF Holds, Grows
<1>3. Verified(st.mail) /\ st.mail \in Mails => Verified(st.mail)'
  BY VerifiedStays
<1>4. st.pc \in {"destination", "examine", "enqueue", "notify", "reject"} => st.mail \in Mails
  BY DEF Holds, ColState
<1> QED
  BY <1>1, <1>2, <1>3, <1>4 DEF Holds

LEMMA OneCollector ==
    ASSUME Collecting, Grows, NEW c \in Collectors, NEW st \in ColState,
           col' = [col EXCEPT ![c] = st], Holds(st)'
    PROVE  Collecting'
<1>1. col' \in [Collectors -> ColState]
  BY DEF Collecting
<1>2. ASSUME NEW d \in Collectors
      PROVE  Holds(col[d])'
  <2>1. CASE d = c
    <3>1. col'[d] = st
      BY <2>1 DEF Collecting
    <3> QED
      BY <3>1 DEF Holds, Verified
  <2>2. CASE d # c
    <3>1. PICK old \in ColState : old = col[d] /\ old = col'[d] /\ Holds(old)
      BY <2>2 DEF Collecting
    <3>2. Holds(old)'
      BY <3>1, HoldsStays
    <3> QED
      BY <3>1, <3>2 DEF Holds, Verified
  <2> QED
    BY <2>1, <2>2
<1> QED
  BY <1>1, <1>2 DEF Collecting

LEMMA SameCollectors ==
    ASSUME Collecting, Grows, UNCHANGED col
    PROVE  Collecting'
<1>1. ASSUME NEW d \in Collectors
      PROVE  Holds(col[d])'
  <2>1. PICK old \in ColState : old = col[d] /\ old = col'[d] /\ Holds(old)
    BY DEF Collecting
  <2>2. Holds(old)'
    BY <2>1, HoldsStays
  <2> QED
    BY <2>1, <2>2 DEF Holds, Verified
<1> QED
  BY <1>1 DEF Collecting

-----------------------------------------------------------------------------
(***************************************************************************)
(* What the moves of a collector make of its state                         *)
(***************************************************************************)
LEMMA StoppedState ==
    /\ Stopped \in ColState
    /\ Stopped.pc = "stopped"
    /\ Stopped.todo = {}
    /\ Stopped.mail = NoMail
BY DEF Stopped, ColState, Pc

LEMMA GotoState ==
    ASSUME Collecting, NEW c \in Collectors, NEW pc \in Pc, Goto(c, pc)
    PROVE  \E st \in ColState : /\ col' = [col EXCEPT ![c] = st]
                                /\ st.pc = pc
                                /\ st.todo = col[c].todo
                                /\ st.mail = col[c].mail
                                /\ st.reason = col[c].reason
<1>1. PICK old \in ColState : old = col[c]
  BY DEF Collecting
<1>2. PICK st : st = [old EXCEPT !.pc = pc]
  BY Zenon
<1>3. /\ st \in ColState
      /\ st.pc = pc
      /\ st.todo = old.todo
      /\ st.mail = old.mail
      /\ st.reason = old.reason
  BY <1>2 DEF ColState
<1>4. col' = [col EXCEPT ![c] = st]
  BY <1>1, <1>2 DEF Goto, Collecting
<1> QED
  BY <1>1, <1>3, <1>4, Zenon

LEMMA LeaseValues ==
    /\ \A c \in Collectors : [owner |-> c, expired |-> FALSE]
                               \in [owner : Collectors \cup {Nobody, Gone}, expired : BOOLEAN]
    /\ [owner |-> Nobody, expired |-> FALSE]
         \in [owner : Collectors \cup {Nobody, Gone}, expired : BOOLEAN]
    /\ LeaseOK => /\ [owner |-> Gone, expired |-> lease.expired]
                       \in [owner : Collectors \cup {Nobody, Gone}, expired : BOOLEAN]
                  /\ [owner |-> lease.owner, expired |-> TRUE]
                       \in [owner : Collectors \cup {Nobody, Gone}, expired : BOOLEAN]
BY DEF LeaseOK

LEMMA ExitState ==
    ASSUME Collecting, Grows, LeaseOK, NEW c \in Collectors, Exit(c)
    PROVE  Collecting' /\ LeaseOK'
<1>1. Holds(Stopped)'
  BY StoppedState DEF Holds
<1>2. PICK st \in ColState : st = Stopped /\ col' = [col EXCEPT ![c] = st]
  BY StoppedState, Zenon DEF Exit
<1>3. Holds(st)'
  BY <1>1, <1>2
<1>4. LeaseOK'
  BY LeaseValues DEF Exit, LeaseOK
<1> QED
  BY <1>2, <1>3, <1>4, OneCollector, Zenon

-----------------------------------------------------------------------------
(***************************************************************************)
(* Steps that leave the durable tables alone                               *)
(***************************************************************************)
durable == <<maildir, sealed, contexts, stamps, inactive, tables>>

LEMMA QuietTables ==
    ASSUME IInv, UNCHANGED durable, faults' \in 0 .. MaxFaults
    PROVE  Grows /\ StampsOK' /\ Nested' /\ Outcomes'
<1>1. Grows /\ StampsOK'
  BY DEF IInv, durable, tables, Grows, StampsOK
<1>2. Nested'
  BY DEF IInv, durable, tables, Nested
<1>3. Outcomes'
  BY DEF IInv, durable, tables, Outcomes, OneOutcomePerEntry, StampAdmitsOneEntry,
         OnlyVerifiedForwardersAreAddressed
<1> QED
  BY <1>1, <1>2, <1>3

LEMMA QuietStep ==
    ASSUME IInv, NEW c \in Collectors,
           Start(c) \/ BeginSweep(c) \/ TakeEntry(c) \/ EndSweep(c) \/ SnapshotDestination(c)
             \/ Examine(c) \/ Refused(c) \/ Break(c)
    PROVE  IInv'
<1>0. Collecting /\ LeaseOK /\ Nested /\ maildir \subseteq Mails
  BY DEF IInv, Nested
<1>a. UNCHANGED durable
  BY DEF Start, BeginSweep, TakeEntry, EndSweep, SnapshotDestination, Examine, Refused, Break,
         StampError, Fail, Kill, durable
<1>b. faults' \in 0 .. MaxFaults
  <2>1. faults \in 0 .. MaxFaults /\ MaxFaults \in Nat
    BY <1>0, CollectorAssumption DEF Nested
  <2>2. faults' = faults \/ (faults < MaxFaults /\ faults' = faults + 1)
    BY DEF Start, BeginSweep, TakeEntry, EndSweep, SnapshotDestination, Examine, Refused, Break,
           StampError, Fail, Kill
  <2> QED
    BY <2>1, <2>2
<1>c. Grows /\ StampsOK' /\ Nested' /\ Outcomes'
  BY <1>a, <1>b, QuietTables
<1>d. PICK old \in ColState : old = col[c] /\ Holds(old)
  BY <1>0 DEF Collecting
<1>e. Holds(old)'
  BY <1>c, <1>d, HoldsStays
<1>x. CASE Exit(c)
  BY <1>0, <1>c, <1>x, ExitState DEF IInv
<1>g. ASSUME NEW pc \in Pc, Goto(c, pc), LeaseOK',
             \A st \in ColState : /\ st.pc = pc
                                 /\ st.todo = old.todo
                                 /\ st.mail = old.mail
                                 /\ st.reason = old.reason => Holds(st)'
      PROVE  IInv'
  <2>1. PICK st \in ColState : /\ col' = [col EXCEPT ![c] = st]
                               /\ st.pc = pc
                               /\ st.todo = old.todo
                               /\ st.mail = old.mail
                               /\ st.reason = old.reason
    BY <1>0, <1>d, <1>g, GotoState
  <2> QED
    BY <1>0, <1>c, <1>g, <2>1, OneCollector, Zenon DEF IInv
<1>n. ASSUME NEW st \in ColState, col' = [col EXCEPT ![c] = st], LeaseOK', Holds(st)'
      PROVE  IInv'
  BY <1>0, <1>c, <1>n, OneCollector, Zenon DEF IInv
<1>r. ASSUME NEW rs \in Reason, Reject(c, rs), UNCHANGED lease, old.mail # NoMail,
             old.pc \notin {"seal", "context"},
             rs # "admission_stamp_invalid" => Verified(old.mail)
      PROVE  IInv'
  <2>1. /\ "reject" \in Pc
        /\ old.todo \in SUBSET Mails
        /\ old.mail \in Mails
        /\ LeaseOK'
    BY <1>0, <1>r DEF Pc, ColState, LeaseOK
  <2>2. PICK st : st = [pc |-> "reject", todo |-> old.todo, mail |-> old.mail, reason |-> rs]
    BY Zenon
  <2>3. /\ st \in ColState
        /\ st.pc = "reject"
        /\ st.todo = old.todo
        /\ st.mail = old.mail
        /\ st.reason = rs
    BY <2>1, <2>2 DEF ColState
  <2>4. col' = [col EXCEPT ![c] = st]
    BY <1>d, <1>r, <2>2 DEF Reject, Mail
  <2>5. Verified(old.mail) => Verified(old.mail)'
    BY <1>c, <2>1, VerifiedStays
  <2>6. Holds(st)'
    BY <1>e, <1>r, <2>3, <2>5 DEF Holds
  <2> QED
    BY <1>n, <2>1, <2>3, <2>4, <2>6, Zenon
<1>l. /\ {"stopped", "ready", "sweep", "seal", "examine", "enqueue"} \subseteq Pc
      /\ "none" \in Reason \cup {"none"} /\ "admission_stamp_invalid" \in Reason
      /\ WrapperRefused \cup SubjectRefused \subseteq Reason
  BY DEF Pc, Reason
<1>1. CASE Start(c)
  <2>1. LeaseOK' /\ Goto(c, "ready") /\ old.pc = "stopped"
    BY <1>1, <1>d, LeaseValues DEF Start, LeaseOK, At
  <2>2. ASSUME NEW st \in ColState, st.pc = "ready", st.todo = old.todo, st.mail = old.mail
        PROVE  Holds(st)'
    BY <1>e, <2>1, <2>2 DEF Holds
  <2> QED
    BY <1>g, <1>l, <2>1, <2>2
<1>2. CASE BeginSweep(c)
  <2>1. CASE /\ lease' = [owner |-> c, expired |-> FALSE]
             /\ col' = [col EXCEPT ![c] = [pc |-> "sweep", todo |-> maildir,
                                           mail |-> NoMail, reason |-> "none"]]
    <3>1. PICK st : st = [pc |-> "sweep", todo |-> maildir, mail |-> NoMail, reason |-> "none"]
      BY Zenon
    <3>2. st \in ColState /\ st.pc = "sweep" /\ st.todo = maildir /\ st.mail = NoMail
      BY <1>0, <1>l, <3>1 DEF ColState
    <3>3. LeaseOK'
      BY <2>1, LeaseValues DEF LeaseOK
    <3>4. Holds(st)'
      BY <1>c, <3>2 DEF Holds, Grows
    <3> QED
      BY <1>n, <2>1, <3>1, <3>2, <3>3, <3>4, Zenon
  <2> QED
    BY <1>2, <1>x, <2>1 DEF BeginSweep
<1>3. CASE TakeEntry(c)
  <2>1. PICK m \in old.todo :
          col' = [col EXCEPT ![c] =
                    IF m \in deliveries
                    THEN [pc |-> "sweep", todo |-> old.todo \ {m},
                          mail |-> NoMail, reason |-> "none"]
                    ELSE [pc |-> "seal", todo |-> old.todo,
                          mail |-> m, reason |-> "none"]]
    BY <1>3, <1>d, Zenon DEF TakeEntry
  <2>2. LeaseOK' /\ old.todo \in SUBSET Mails /\ m \in Mails /\ m # NoMail
    BY <1>3, <1>0, CollectorAssumption DEF TakeEntry, LeaseOK, ColState
  <2>3. CASE m \in deliveries
    <3>1. PICK st : st = [pc |-> "sweep", todo |-> old.todo \ {m}, mail |-> NoMail, reason |-> "none"]
      BY Zenon
    <3>2. st \in ColState /\ st.pc = "sweep" /\ st.todo = old.todo \ {m} /\ st.mail = NoMail
      BY <1>l, <2>2, <3>1 DEF ColState
    <3>3. Holds(st)'
      BY <1>e, <3>2 DEF Holds
    <3> QED
      BY <1>n, <2>1, <2>2, <2>3, <3>1, <3>2, <3>3, Zenon
  <2>4. CASE m \notin deliveries
    <3>1. PICK st : st = [pc |-> "seal", todo |-> old.todo, mail |-> m, reason |-> "none"]
      BY Zenon
    <3>2. st \in ColState /\ st.pc = "seal" /\ st.todo = old.todo /\ st.mail = m
      BY <1>l, <2>2, <3>1 DEF ColState
    <3>3. Holds(st)'
      BY <1>e, <2>1, <2>2, <3>2, Zenon DEF Holds
    <3> QED
      BY <1>n, <2>1, <2>2, <2>4, <3>1, <3>2, <3>3, Zenon
  <2> QED
    BY <2>3, <2>4
<1>4. CASE EndSweep(c)
  <2>1. CASE Goto(c, "ready") /\ UNCHANGED lease
    <3>1. LeaseOK' /\ old.pc = "sweep"
      BY <1>4, <1>0, <1>d, <2>1, Zenon DEF EndSweep, LeaseOK, At
    <3>2. ASSUME NEW st \in ColState, st.pc = "ready", st.todo = old.todo, st.mail = old.mail
          PROVE  Holds(st)'
      BY <1>e, <3>1, <3>2, Zenon DEF Holds
    <3> QED
      BY <1>g, <1>l, <2>1, <3>1, <3>2
  <2> QED
    BY <1>4, <1>x, <2>1, Zenon DEF EndSweep
<1>5. CASE SnapshotDestination(c)
  <2>1. CASE Goto(c, "examine") /\ UNCHANGED lease
    <3>1. LeaseOK' /\ old.pc = "destination"
      BY <1>5, <1>0, <1>d, <2>1, Zenon DEF SnapshotDestination, LeaseOK, At
    <3>2. ASSUME NEW st \in ColState, st.pc = "examine", st.todo = old.todo, st.mail = old.mail
          PROVE  Holds(st)'
      BY <1>e, <3>1, <3>2, Zenon DEF Holds
    <3> QED
      BY <1>g, <1>l, <2>1, <3>1, <3>2
  <2> QED
    BY <1>5, <1>x, <2>1 DEF SnapshotDestination
<1>6. CASE Examine(c)
  <2>1. LeaseOK' /\ UNCHANGED lease /\ old.pc = "examine" /\ old.mail # NoMail /\ Verified(old.mail)
    BY <1>6, <1>0, <1>d, Zenon DEF Examine, LeaseOK, At, Holds
  <2>2. CASE Goto(c, "enqueue")
    <3>1. ASSUME NEW st \in ColState, st.pc = "enqueue", st.todo = old.todo, st.mail = old.mail
          PROVE  Holds(st)'
      BY <1>e, <2>1, <3>1, Zenon DEF Holds
    <3> QED
      BY <1>g, <1>l, <2>1, <2>2, <3>1
  <2>3. CASE \E rs \in WrapperRefused \cup SubjectRefused : Reject(c, rs)
    BY <1>l, <1>r, <2>1, <2>3
  <2> QED
    BY <1>6, <2>2, <2>3 DEF Examine
<1>7. CASE Refused(c) \/ Fail(c)
  BY <1>7, <1>x, Zenon DEF Refused, Fail
<1>8. CASE Kill(c)
  <2>1. LeaseOK'
    BY <1>8, <1>0, LeaseValues DEF Kill, LeaseOK
  <2>2. PICK st \in ColState : st = Stopped /\ col' = [col EXCEPT ![c] = st]
    BY <1>8, StoppedState, Zenon DEF Kill
  <2>3. Holds(st)'
    BY <2>2, StoppedState, Zenon DEF Holds
  <2> QED
    BY <1>0, <1>c, <2>1, <2>2, <2>3, OneCollector, Zenon DEF IInv
<1>9. CASE StampError(c)
  <2>1. UNCHANGED lease /\ old.pc = "stamp" /\ old.mail # NoMail
    BY <1>9, <1>d, Zenon DEF StampError, At, Holds
  <2> QED
    BY <1>9, <1>l, <1>r, <2>1 DEF StampError
<1> QED
  BY <1>1, <1>2, <1>3, <1>4, <1>5, <1>6, <1>7, <1>8, <1>9 DEF Break

-----------------------------------------------------------------------------
(***************************************************************************)
(* Steps that change the durable tables                                    *)
(***************************************************************************)
\* The outcomes of the entries only depend on these.
LEMMA SameOutcomes ==
    ASSUME IInv, UNCHANGED tables,
           \A d \in Decisions : stamps[d].by # NoMail => stamps'[d].by = stamps[d].by
    PROVE  Outcomes'
<1>1. \A m \in Mails : m # NoMail
  BY CollectorAssumption
<1>2. addressed \cup notices \subseteq Mails
  BY DEF IInv, Nested
<1>3. StampAdmitsOneEntry'
  BY <1>1 DEF IInv, Outcomes, tables, StampAdmitsOneEntry
<1>4. OnlyVerifiedForwardersAreAddressed'
  BY <1>1, <1>2 DEF IInv, Outcomes, tables, OnlyVerifiedForwardersAreAddressed
<1> QED
  BY <1>3, <1>4 DEF IInv, Outcomes, tables, OneOutcomePerEntry

LEMMA WorldStep ==
    ASSUME IInv, World
    PROVE  IInv'
<1>0. Collecting /\ LeaseOK /\ StampsOK /\ Nested
  BY DEF IInv
<1>1. ASSUME NEW m \in Mails, Deliver(m) PROVE IInv'
  <2>1. Grows /\ UNCHANGED <<lease, col, stamps, tables>>
    BY <1>1 DEF Deliver, tables, Grows
  <2>2. Nested'
    BY <1>0, <1>1 DEF Deliver, tables, Nested
  <2>3. Outcomes'
    BY <2>1, SameOutcomes
  <2> QED
    BY <1>0, <2>1, <2>2, <2>3, SameCollectors DEF IInv, LeaseOK, StampsOK
<1>2. CASE LeaseExpires
  <2>1. UNCHANGED durable /\ UNCHANGED faults /\ UNCHANGED col
    BY <1>2 DEF LeaseExpires, durable
  <2>2. Grows /\ StampsOK' /\ Nested' /\ Outcomes'
    BY <1>0, <2>1, QuietTables DEF Nested
  <2>3. LeaseOK'
    BY <1>0, <1>2, LeaseValues DEF LeaseExpires, LeaseOK
  <2> QED
    BY <1>0, <2>1, <2>2, <2>3, SameCollectors DEF IInv
<1>3. ASSUME NEW d \in Decisions, StampExpires(d) PROVE IInv'
  <2>1. stamps' = [stamps EXCEPT ![d].expired = TRUE]
    BY <1>3 DEF StampExpires
  <2>2. UNCHANGED <<maildir, lease, col, sealed, contexts, inactive, tables, faults>>
    BY <1>3 DEF StampExpires
  <2>3. StampsOK'
    BY <1>0, <2>1, Zenon DEF StampsOK
  <2>4. \A e \in Decisions : stamps'[e].by = stamps[e].by
    BY <1>0, <2>1 DEF StampsOK
  <2>5. Grows
    BY <2>2, <2>4 DEF tables, Grows
  <2>6. Outcomes'
    BY <2>2, <2>4, SameOutcomes
  <2>7. Nested'
    BY <1>0, <2>2 DEF Nested, tables
  <2> QED
    BY <1>0, <2>2, <2>3, <2>5, <2>6, <2>7, SameCollectors DEF IInv, LeaseOK
<1>4. ASSUME NEW d \in Decisions, SubmitterChanges(d) PROVE IInv'
  <2>1. Grows /\ UNCHANGED <<maildir, lease, col, sealed, contexts, stamps, tables, faults>>
    BY <1>4 DEF SubmitterChanges, tables, Grows
  <2>2. inactive' \subseteq Decisions
    BY <1>0, <1>4 DEF SubmitterChanges, Nested
  <2>3. Nested'
    BY <1>0, <2>1, <2>2 DEF tables, Nested
  <2>4. Outcomes'
    BY <2>1, SameOutcomes
  <2> QED
    BY <1>0, <2>1, <2>3, <2>4, SameCollectors DEF IInv, LeaseOK, StampsOK
<1> QED
  BY <1>1, <1>2, <1>3, <1>4 DEF World

\* The collector's own steps before an entry is recorded.
LEMMA EvidenceStep ==
    ASSUME IInv, NEW c \in Collectors, Seal(c) \/ PublishIngress(c) \/ ConsumeStamp(c)
    PROVE  IInv'
<1>0. Collecting /\ LeaseOK /\ StampsOK /\ Nested
  BY DEF IInv
<1>d. PICK old \in ColState : old = col[c] /\ Holds(old)
  BY <1>0 DEF Collecting
<1>m. old.pc \in {"seal", "context", "stamp"} /\ old.mail \in Mails /\ old.mail \in maildir
      /\ old.mail # NoMail
  <2>1. old.pc \in {"seal", "context", "stamp"}
    BY <1>d DEF Seal, PublishIngress, ConsumeStamp, At
  <2> QED
    BY <1>d, <2>1, Zenon DEF Holds, ColState
<1>l. LeaseOK' /\ UNCHANGED <<tables, maildir, inactive, faults>>
  BY <1>0 DEF Seal, PublishIngress, ConsumeStamp, LeaseOK
<1>g. ASSUME NEW pc \in Pc, Goto(c, pc), Grows, StampsOK', Nested', Outcomes',
             \A st \in ColState : /\ st.pc = pc
                                 /\ st.todo = old.todo
                                 /\ st.mail = old.mail => Holds(st)'
      PROVE  IInv'
  <2>1. PICK st \in ColState : /\ col' = [col EXCEPT ![c] = st]
                               /\ st.pc = pc
                               /\ st.todo = old.todo
                               /\ st.mail = old.mail
    BY <1>0, <1>d, <1>g, GotoState
  <2> QED
    BY <1>0, <1>g, <1>l, <2>1, OneCollector, Zenon DEF IInv
<1>1. CASE Seal(c)
  <2>1. sealed' = sealed \cup {old.mail} /\ UNCHANGED <<contexts, stamps>> /\ Goto(c, "context")
        /\ old.pc = "seal"
    BY <1>1, <1>d DEF Seal, Mail, At
  <2>2. Grows /\ StampsOK'
    BY <1>0, <1>l, <2>1 DEF Grows, StampsOK, tables
  <2>3. Nested'
    BY <1>0, <1>l, <1>m, <2>1 DEF Nested, tables
  <2>4. Outcomes'
    BY <1>l, <2>1, SameOutcomes
  <2>5. ASSUME NEW st \in ColState, st.pc = "context", st.todo = old.todo, st.mail = old.mail
        PROVE  Holds(st)'
    BY <1>d, <1>l, <1>m, <2>1, <2>5, Zenon DEF Holds
  <2>6. "context" \in Pc
    BY DEF Pc
  <2> QED
    BY <1>g, <2>1, <2>2, <2>3, <2>4, <2>5, <2>6
<1>2. CASE PublishIngress(c)
  <2>1. contexts' = contexts \cup {old.mail} /\ UNCHANGED <<sealed, stamps>> /\ Goto(c, "stamp")
        /\ old.pc = "context" /\ old.mail \in sealed
    BY <1>2, <1>d, <1>m, Zenon DEF PublishIngress, Mail, At, Holds
  <2>2. Grows /\ StampsOK'
    BY <1>0, <1>l, <2>1, Zenon DEF Grows, StampsOK, tables
  <2>3. Nested'
    BY <1>0, <1>l, <1>m, <2>1 DEF Nested, tables
  <2>4. Outcomes'
    BY <1>l, <2>1, SameOutcomes
  <2>5. ASSUME NEW st \in ColState, st.pc = "stamp", st.todo = old.todo, st.mail = old.mail
        PROVE  Holds(st)'
    BY <1>d, <1>l, <1>m, <2>1, <2>5, Zenon DEF Holds
  <2>6. "stamp" \in Pc
    BY DEF Pc
  <2> QED
    BY <1>g, <2>1, <2>2, <2>3, <2>4, <2>5, <2>6
<1>3. CASE ConsumeStamp(c)
  <2>0. /\ UNCHANGED <<sealed, contexts>>
        /\ old.pc = "stamp"
        /\ old.mail \in sealed
        /\ old.mail \in contexts
    BY <1>3, <1>d, <1>m DEF ConsumeStamp, At, Holds
  <2>n. Nested'
    BY <1>0, <1>l, <2>0 DEF Nested, tables
  <2>1. CASE /\ Stamp[old.mail] \in Decisions
             /\ stamps[Stamp[old.mail]].by = NoMail
             /\ stamps' = [stamps EXCEPT ![Stamp[old.mail]].by = old.mail]
             /\ Goto(c, "destination")
    <3>1. PICK d \in Decisions : d = Stamp[old.mail]
      BY <2>1
    <3>2. stamps[d].by = NoMail /\ stamps' = [stamps EXCEPT ![d].by = old.mail]
      BY <2>1, <3>1
    <3>3. StampsOK'
      BY <1>0, <1>m, <3>2 DEF StampsOK
    <3>4. stamps'[d].by = old.mail /\ \A e \in Decisions \ {d} : stamps'[e].by = stamps[e].by
      BY <1>0, <3>2 DEF StampsOK
    <3>5. \A e \in Decisions : stamps[e].by # NoMail => stamps'[e].by = stamps[e].by
      BY <3>2, <3>4
    <3>6. Grows
      BY <1>l, <2>0, <3>5, Zenon DEF Grows, tables
    <3>7. Outcomes'
      BY <1>l, <3>5, SameOutcomes
    <3>8. Verified(old.mail)'
      BY <3>1, <3>4 DEF Verified
    <3>9. ASSUME NEW st \in ColState, st.pc = "destination", st.todo = old.todo,
                 st.mail = old.mail
          PROVE  Holds(st)'
      BY <1>d, <1>l, <1>m, <2>0, <3>8, <3>9, Zenon DEF Holds
    <3>10. "destination" \in Pc
      BY DEF Pc
    <3> QED
      BY <1>g, <2>1, <2>n, <3>3, <3>6, <3>7, <3>9, <3>10
  <2>2. CASE Reject(c, "admission_stamp_invalid") /\ UNCHANGED stamps
    <3>1. Grows /\ StampsOK'
      BY <1>0, <1>l, <2>0, <2>2, Zenon DEF Grows, StampsOK, tables
    <3>2. Outcomes'
      BY <1>l, <2>2, SameOutcomes
    <3>3. PICK st : st = [pc |-> "reject", todo |-> old.todo, mail |-> old.mail,
                          reason |-> "admission_stamp_invalid"]
      BY Zenon
    <3>4. /\ st \in ColState
          /\ st.pc = "reject"
          /\ st.todo = old.todo
          /\ st.mail = old.mail
          /\ st.reason = "admission_stamp_invalid"
          /\ st.reason \in Reason
      BY <3>3 DEF ColState, Pc, Reason
    <3>5. col' = [col EXCEPT ![c] = st]
      BY <1>d, <2>2, <3>3 DEF Reject, Mail
    <3>6. Holds(st)'
      BY <1>d, <1>l, <1>m, <2>0, <3>4, Zenon DEF Holds
    <3> QED
      BY <1>0, <1>l, <2>n, <3>1, <3>2, <3>4, <3>5, <3>6, OneCollector, Zenon DEF IInv
  <2> QED
    BY <1>3, <1>d, <2>1, <2>2, Zenon DEF ConsumeStamp, Mail
<1> QED
  BY <1>1, <1>2, <1>3

-----------------------------------------------------------------------------
(***************************************************************************)
(* Steps that record an entry                                              *)
(***************************************************************************)
LEMMA Unrecorded ==
    ASSUME IInv, NEW m \in Mails, m \notin deliveries
    PROVE  queued[m] = 0 /\ rejected[m] = <<>>
<1>1. queued[m] \in Nat /\ rejected[m] \in Seq(Reason) /\ queued[m] + Len(rejected[m]) = 0
  BY DEF IInv, Outcomes, OneOutcomePerEntry
<1>2. Len(rejected[m]) \in Nat
  BY <1>1
<1>3. queued[m] = 0 /\ Len(rejected[m]) = 0
  BY <1>1, <1>2
<1> QED
  BY <1>1, <1>3, EmptySeq, Zenon

\* A delivery is recorded for m with a run, or with one rejection.
LEMMA Recorded ==
    ASSUME IInv, NEW m \in contexts, NEW n \in {0, 1}, NEW rj \in Seq(Reason),
           Record(m), n + Len(rj) = 1,
           queued' = [queued EXCEPT ![m] = n],
           rejected' = [rejected EXCEPT ![m] = rj],
           addressed' \in {addressed, addressed \cup {m}},
           Verified(m) \/ (n = 0 /\ addressed' = addressed),
           m \in addressed' => rj # <<"admission_stamp_invalid">>,
           UNCHANGED <<maildir, sealed, contexts, stamps, inactive, notices, faults>>
    PROVE  Grows /\ StampsOK' /\ Nested' /\ Outcomes'
<1>0. /\ m \in Mails
      /\ m \notin deliveries
      /\ m \notin addressed
      /\ m \notin notices
      /\ deliveries' = deliveries \cup {m}
      /\ addressed \subseteq Mails
      /\ notices \subseteq Mails
      /\ deliveries \subseteq Mails
  BY DEF IInv, Nested, Record
<1>1. queued \in [Mails -> Nat] /\ rejected \in [Mails -> Seq(Reason)]
  BY DEF IInv, Outcomes
<1>2. /\ queued' \in [Mails -> Nat]
      /\ rejected' \in [Mails -> Seq(Reason)]
      /\ queued'[m] = n
      /\ rejected'[m] = rj
      /\ \A k \in Mails \ {m} : queued'[k] = queued[k] /\ rejected'[k] = rejected[k]
  BY <1>0, <1>1
<1>3. Grows
  BY <1>0, <1>2, Zenon DEF Grows
<1>4. Nested' /\ StampsOK'
  BY <1>0 DEF IInv, Nested, StampsOK
<1>5. OneOutcomePerEntry'
  <2>1. ASSUME NEW k \in Mails
        PROVE  queued'[k] + Len(rejected'[k]) = IF k \in deliveries' THEN 1 ELSE 0
    <3>1. CASE k = m
      BY <1>0, <1>2, <3>1, Zenon
    <3>2. CASE k # m
      BY <1>0, <1>2, <3>2, Zenon DEF IInv, Outcomes, OneOutcomePerEntry
    <3> QED
      BY <3>1, <3>2
  <2> QED
    BY <2>1 DEF OneOutcomePerEntry
<1>6. StampAdmitsOneEntry'
  <2>1. ASSUME NEW k \in Mails, queued'[k] > 0
        PROVE  Stamp[k] \in Decisions /\ stamps'[Stamp[k]].by = k
    <3>1. CASE k = m
      BY <1>2, <2>1, <3>1 DEF Verified
    <3>2. CASE k # m
      BY <1>2, <2>1, <3>2, Zenon DEF IInv, Outcomes, StampAdmitsOneEntry
    <3> QED
      BY <3>1, <3>2, Zenon
  <2> QED
    BY <2>1, Zenon DEF StampAdmitsOneEntry
<1>7. OnlyVerifiedForwardersAreAddressed'
  <2>1. ASSUME NEW k \in (addressed \cup notices)'
        PROVE  /\ Stamp[k] \in Decisions
               /\ stamps'[Stamp[k]].by = k
               /\ rejected'[k] # <<"admission_stamp_invalid">>
    <3>1. CASE k = m
      BY <1>0, <1>2, <2>1, <3>1, Zenon DEF Verified
    <3>2. CASE k # m
      BY <1>0, <1>2, <2>1, <3>2, Zenon DEF IInv, Outcomes, OnlyVerifiedForwardersAreAddressed
    <3> QED
      BY <3>1, <3>2, Zenon
  <2> QED
    BY <2>1, Zenon DEF OnlyVerifiedForwardersAreAddressed
<1> QED
  BY <1>2, <1>3, <1>4, <1>5, <1>6, <1>7 DEF Outcomes

LEMMA ContinueState ==
    ASSUME IInv, Grows, NEW c \in Collectors, Continue(c)
    PROVE  Collecting'
<1>0. Collecting
  BY DEF IInv
<1>1. PICK old \in ColState : old = col[c] /\ Holds(old)
  BY <1>0 DEF Collecting
<1>2. PICK st : st = [pc |-> "sweep", todo |-> old.todo \ {old.mail},
                      mail |-> NoMail, reason |-> "none"]
  BY Zenon
<1>3. st \in ColState /\ st.pc = "sweep" /\ st.todo \subseteq old.todo /\ st.mail = NoMail
  BY <1>2 DEF ColState, Pc
<1>4. Holds(st)'
  BY <1>1, <1>3, Zenon DEF Holds, Grows
<1>5. col' = [col EXCEPT ![c] = st]
  BY <1>1, <1>2 DEF Continue, Mail
<1> QED
  BY <1>0, <1>3, <1>4, <1>5, OneCollector, Zenon

LEMMA RecordStep ==
    ASSUME IInv, NEW c \in Collectors,
           EnqueueAdmitted(c) \/ RecordRejected(c) \/ EnqueueNotification(c)
    PROVE  IInv'
<1>0. Collecting /\ LeaseOK /\ StampsOK /\ Nested
  BY DEF IInv
<1>d. PICK old \in ColState : old = col[c] /\ Holds(old)
  BY <1>0 DEF Collecting
<1>m. /\ old.pc \in {"enqueue", "reject", "notify"}
      /\ old.mail \in Mails
      /\ old.mail \in contexts
  <2>1. old.pc \in {"enqueue", "reject", "notify"}
    BY <1>d, Zenon DEF EnqueueAdmitted, RecordRejected, EnqueueNotification, At
  <2> QED
    BY <1>d, <2>1, Zenon DEF Holds, ColState
<1>p. PICK m \in contexts : m = old.mail /\ m = Mail(c) /\ m \in Mails
  BY <1>d, <1>m, Zenon DEF Mail
<1>l. LeaseOK' /\ UNCHANGED <<maildir, sealed, contexts, stamps, inactive, faults>>
  BY <1>0, Zenon DEF EnqueueAdmitted, RecordRejected, EnqueueNotification, LeaseOK
<1>t. queued \in [Mails -> Nat] /\ rejected \in [Mails -> Seq(Reason)]
  BY DEF IInv, Outcomes
<1>1. CASE EnqueueAdmitted(c)
  <2>1. /\ Record(m)
        /\ addressed' = addressed \cup {m}
        /\ queued' = [queued EXCEPT ![m] = queued[m] + 1]
        /\ Continue(c)
        /\ UNCHANGED <<rejected, notices>>
        /\ old.pc = "enqueue"
    BY <1>1, <1>d, <1>p, Zenon DEF EnqueueAdmitted, At
  <2>2. queued[m] = 0 /\ rejected[m] = <<>>
    BY <1>p, <2>1, Unrecorded, Zenon DEF Record
  <2>z. <<>> \in Seq(Reason) /\ Len(<<>>) = 0
    OBVIOUS
  <2>3. PICK rj \in Seq(Reason) : rj = <<>> /\ Len(rj) = 0
    BY <2>z, Zenon
  <2>4. PICK n \in {0, 1} : n = 1
    OBVIOUS
  <2>5. /\ queued' = [queued EXCEPT ![m] = n]
        /\ rejected' = [rejected EXCEPT ![m] = rj]
        /\ n + Len(rj) = 1
        /\ rj # <<"admission_stamp_invalid">>
    BY <1>p, <1>t, <2>1, <2>2, <2>3, <2>4
  <2>6. Verified(m)
    BY <1>d, <1>p, <2>1, Zenon DEF Holds
  <2>7. Grows /\ StampsOK' /\ Nested' /\ Outcomes'
    BY <1>l, <2>1, <2>5, <2>6, Recorded, Zenon
  <2> QED
    BY <1>l, <2>1, <2>7, ContinueState DEF IInv
<1>2. CASE RecordRejected(c)
  <2>0. PICK rs \in Reason : rs = old.reason
    BY <1>2, <1>d, Zenon DEF RecordRejected, At, Holds
  <2>1. /\ Record(m)
        /\ rejected' = [rejected EXCEPT ![m] = Append(rejected[m], rs)]
        /\ addressed' = IF rs = "admission_stamp_invalid" THEN addressed ELSE addressed \cup {m}
        /\ IF rs \in Notified THEN Goto(c, "notify") ELSE Continue(c)
        /\ UNCHANGED <<queued, notices>>
        /\ old.pc = "reject"
    BY <1>2, <1>d, <1>p, <2>0, Zenon DEF RecordRejected, At
  <2>2. queued[m] = 0 /\ rejected[m] = <<>>
    BY <1>p, <2>1, Unrecorded, Zenon DEF Record
  <2>z. <<rs>> \in Seq(Reason) /\ Len(<<rs>>) = 1 /\ <<rs>>[1] = rs
    OBVIOUS
  <2>3. PICK rj \in Seq(Reason) : rj = <<rs>> /\ Len(rj) = 1 /\ rj[1] = rs
    BY <2>z, Zenon
  <2>4. PICK n \in {0, 1} : n = 0
    OBVIOUS
  <2>5. /\ queued' = [queued EXCEPT ![m] = n]
        /\ n + Len(rj) = 1
    BY <1>p, <1>t, <2>1, <2>2, <2>3, <2>4
  <2>6. rejected' = [rejected EXCEPT ![m] = rj]
    BY <1>p, <1>t, <2>1, <2>2, <2>3
  <2>7. rs # "admission_stamp_invalid" => rj # <<"admission_stamp_invalid">>
    BY <2>3
  <2>8. rs # "admission_stamp_invalid" => Verified(m)
    BY <1>d, <1>p, <2>0, <2>1, Zenon DEF Holds
  <2>9. m \notin addressed
    BY <1>0, <2>1 DEF Record, Nested
  <2>a. addressed' \in {addressed, addressed \cup {m}}
    BY <2>1
  <2>b. Verified(m) \/ (n = 0 /\ addressed' = addressed)
    BY <2>1, <2>4, <2>8
  <2>c. m \in addressed' => rj # <<"admission_stamp_invalid">>
    BY <2>1, <2>7, <2>9
  <2>d. Grows /\ StampsOK' /\ Nested' /\ Outcomes'
    BY <1>l, <2>1, <2>5, <2>6, <2>a, <2>b, <2>c, Recorded, Zenon
  <2>e. CASE Goto(c, "notify") /\ rs \in Notified
    <3>0. PICK pc \in Pc : pc = "notify"
      BY DEF Pc
    <3>1. PICK st \in ColState : /\ col' = [col EXCEPT ![c] = st]
                                 /\ st.pc = pc
                                 /\ st.todo = old.todo
                                 /\ st.mail = old.mail
      BY <1>0, <1>d, <2>e, <3>0, GotoState
    <3>2. rs # "admission_stamp_invalid"
      BY <2>e DEF Notified
    <3>3. rejected'[m] = rj /\ m \in deliveries'
      BY <1>p, <1>t, <2>1, <2>6, Zenon DEF Record
    <3>4. Verified(m)'
      BY <1>l, <2>8, <3>2, Zenon DEF Verified
    <3>5. Holds(old)'
      BY <1>d, <2>d, HoldsStays
    <3>6. Holds(st)'
      BY <1>p, <2>1, <2>7, <3>0, <3>1, <3>2, <3>3, <3>4, <3>5, Zenon DEF Holds
    <3> QED
      BY <1>0, <1>l, <2>d, <3>1, <3>6, OneCollector, Zenon DEF IInv
  <2>f. CASE Continue(c)
    BY <1>l, <2>d, <2>f, ContinueState DEF IInv
  <2> QED
    BY <2>1, <2>e, <2>f
<1>3. CASE EnqueueNotification(c)
  <2>1. /\ notices' = notices \cup {m}
        /\ UNCHANGED <<deliveries, addressed, queued, rejected>>
        /\ Continue(c)
        /\ old.pc = "notify"
    BY <1>3, <1>d, <1>p, Zenon DEF EnqueueNotification, At
  <2>2. Verified(m) /\ m \in deliveries /\ rejected[m] # <<"admission_stamp_invalid">>
    BY <1>d, <1>p, <2>1, Zenon DEF Holds
  <2>3. Grows /\ StampsOK'
    BY <1>0, <1>l, <2>1, Zenon DEF Grows, StampsOK
  <2>4. Nested'
    BY <1>0, <1>l, <2>1, <2>2, Zenon DEF Nested
  <2>5. OneOutcomePerEntry' /\ StampAdmitsOneEntry'
    BY <1>l, <2>1, Zenon DEF IInv, Outcomes, OneOutcomePerEntry, StampAdmitsOneEntry
  <2>6. OnlyVerifiedForwardersAreAddressed'
    BY <1>l, <2>1, <2>2, Zenon DEF IInv, Outcomes, OnlyVerifiedForwardersAreAddressed, Verified
  <2>7. Outcomes'
    BY <1>t, <2>1, <2>5, <2>6 DEF Outcomes
  <2> QED
    BY <1>l, <2>1, <2>3, <2>4, <2>7, ContinueState DEF IInv
<1> QED
  BY <1>1, <1>2, <1>3

-----------------------------------------------------------------------------
(***************************************************************************)
(* The invariant holds                                                     *)
(***************************************************************************)
LEMMA InitIInv == Init => IInv
<1> SUFFICES ASSUME Init PROVE IInv
  OBVIOUS
<1>1. /\ maildir = {} /\ sealed = {} /\ contexts = {} /\ inactive = {}
      /\ deliveries = {} /\ addressed = {} /\ notices = {} /\ faults = 0
      /\ queued = [m \in Mails |-> 0]
      /\ rejected = [m \in Mails |-> <<>>]
      /\ stamps = [d \in Decisions |-> [by |-> NoMail, expired |-> FALSE]]
      /\ lease = [owner |-> Nobody, expired |-> FALSE]
      /\ col = [c \in Collectors |-> Stopped]
  BY Zenon DEF Init
<1>2. Collecting
  <2>1. Holds(Stopped)
    BY StoppedState, Zenon DEF Holds
  <2> QED
    BY <1>1, <2>1, StoppedState, Zenon DEF Collecting
<1>3. LeaseOK
  BY <1>1, LeaseValues, Zenon DEF LeaseOK
<1>4. StampsOK
  <2>1. [by |-> NoMail, expired |-> FALSE] \in [by : Mails \cup {NoMail}, expired : BOOLEAN]
    OBVIOUS
  <2> QED
    BY <1>1, <2>1, Zenon DEF StampsOK
<1>5. Nested
  BY <1>1, CollectorAssumption DEF Nested
<1>6. <<>> \in Seq(Reason) /\ Len(<<>>) = 0
  OBVIOUS
<1>7. Outcomes
  BY <1>1, <1>6 DEF Outcomes, OneOutcomePerEntry, StampAdmitsOneEntry,
                    OnlyVerifiedForwardersAreAddressed
<1> QED
  BY <1>2, <1>3, <1>4, <1>5, <1>7 DEF IInv

LEMMA StepIInv == IInv /\ [Next]_vars => IInv'
<1> SUFFICES ASSUME IInv, [Next]_vars PROVE IInv'
  OBVIOUS
<1>1. ASSUME NEW c \in Collectors, Collect(c) \/ Break(c) PROVE IInv'
  BY <1>1, QuietStep, EvidenceStep, RecordStep, Zenon DEF Collect
<1>2. CASE World
  BY <1>2, WorldStep
<1>3. CASE UNCHANGED vars
  <2>1. UNCHANGED durable /\ UNCHANGED <<faults, col, lease>>
    BY <1>3 DEF vars, durable
  <2>2. Grows /\ StampsOK' /\ Nested' /\ Outcomes'
    BY <2>1, QuietTables DEF IInv, Nested
  <2>3. Collecting' /\ LeaseOK'
    BY <2>1, <2>2, SameCollectors DEF IInv, LeaseOK
  <2> QED
    BY <2>2, <2>3 DEF IInv
<1> QED
  BY <1>1, <1>2, <1>3 DEF Next

LEMMA Invariance == Spec => []IInv
<1>1. Init => IInv
  BY InitIInv
<1>2. IInv /\ [Next]_vars => IInv'
  BY StepIInv
<1> QED
  BY <1>1, <1>2, PTL DEF Spec

\* The tables, the Maildir and the collectors hold values of their types, for
\* any number of collectors, entries and stamps.
THEOREM CollectorTypeCorrect == Spec => []TypeOK
<1>1. IInv => TypeOK
  <2> SUFFICES ASSUME IInv PROVE TypeOK
    OBVIOUS
  <2>1. /\ col \in [Collectors -> ColState]
        /\ \A c \in Collectors :
              (Mail(c) = NoMail) <=> (col[c].pc \in {"stopped", "ready", "sweep"})
    BY Zenon DEF IInv, Collecting, Holds, Mail
  <2> QED
    BY <2>1, Zenon DEF IInv, LeaseOK, StampsOK, Nested, Outcomes, TypeOK, ColState
<1> QED
  BY <1>1, Invariance, PTL

\* However collectors overlap and stop between the steps of a sweep, an entry
\* is recorded once (main.go collectOnce).
THEOREM EntriesHaveOneOutcome == Spec => []OneOutcomePerEntry
<1>1. IInv => OneOutcomePerEntry
  BY DEF IInv, Outcomes
<1> QED
  BY <1>1, Invariance, PTL

\* An entry has a run only if a stamp was consumed for it, and no stamp admits
\* two entries, however collectors overlap on copies of one message
\* (main.go collectOnce, header.go ConsumeStamp).
THEOREM StampsAdmitOnce == Spec => []StampAdmitsOneEntry
<1>1. IInv => StampAdmitsOneEntry
  BY DEF IInv, Outcomes
<1> QED
  BY <1>1, Invariance, PTL

\* Nobody is addressed on account of an unverified message (main.go
\* collectOnce).
THEOREM AddressedAreVerified == Spec => []OnlyVerifiedForwardersAreAddressed
<1>1. IInv => OnlyVerifiedForwardersAreAddressed
  BY DEF IInv, Outcomes
<1> QED
  BY <1>1, Invariance, PTL

-----------------------------------------------------------------------------
(***************************************************************************)
(* The collector implements Intake                                         *)
(***************************************************************************)
IntakeStep == (\E m \in Mails : \/ Entry!SealMail(m)
                                \/ Entry!Spend(m)
                                \/ Entry!Accept(m)
                                \/ Entry!Refuse(m))
                \/ UNCHANGED Entry!intake

\* Only the sealed artifacts, the consumers of the stamps, the runs and the
\* rejections show.
LEMMA Unseen ==
    ASSUME UNCHANGED <<sealed, queued, rejected>>,
           \A d \in Decisions : stamps'[d].by = stamps[d].by
    PROVE  UNCHANGED Entry!intake
<1>1. \A m \in Mails : OutcomeOf(m)' = OutcomeOf(m)
  BY DEF OutcomeOf
<1> QED
  BY <1>1, Zenon DEF Entry!intake

LEMMA Sealed ==
    ASSUME NEW m \in Mails, sealed' = sealed \cup {m}, UNCHANGED <<queued, rejected, stamps>>
    PROVE  Entry!SealMail(m)
<1>1. \A k \in Mails : OutcomeOf(k)' = OutcomeOf(k)
  BY DEF OutcomeOf
<1> QED
  BY <1>1 DEF Entry!SealMail

LEMMA Spent ==
    ASSUME NEW m \in sealed, NEW d \in Decisions, d = Stamp[m], stamps[d].by = NoMail,
           stamps'[d].by = m,
           \A e \in Decisions \ {d} : stamps'[e].by = stamps[e].by,
           UNCHANGED <<sealed, queued, rejected>>
    PROVE  Entry!Spend(m)
<1>1. \A k \in Mails : OutcomeOf(k)' = OutcomeOf(k)
  BY Zenon DEF OutcomeOf
<1>2. [e \in Decisions |-> stamps'[e].by]
        = [[e \in Decisions |-> stamps[e].by] EXCEPT ![d] = m]
  BY Zenon
<1> QED
  BY <1>1, <1>2, Zenon DEF Entry!Spend

LEMMA Settled ==
    ASSUME NEW m \in Mails, queued[m] = 0, rejected[m] = <<>>,
           \A k \in Mails \ {m} : queued'[k] = queued[k] /\ rejected'[k] = rejected[k],
           UNCHANGED <<sealed, stamps>>
    PROVE  /\ Verified(m) /\ queued'[m] = 1 /\ rejected'[m] = <<>> => Entry!Accept(m)
           /\ m \in sealed /\ queued'[m] = 0 /\ rejected'[m] # <<>> => Entry!Refuse(m)
<1>1. OutcomeOf(m) = "none"
  BY Zenon DEF OutcomeOf
<1>2. \A k \in Mails \ {m} : OutcomeOf(k)' = OutcomeOf(k)
  BY Zenon DEF OutcomeOf
<1>3. ASSUME Verified(m), queued'[m] = 1, rejected'[m] = <<>>
      PROVE  Entry!Accept(m)
  <2>1. OutcomeOf(m)' = "run"
    BY <1>3 DEF OutcomeOf
  <2>2. [k \in Mails |-> OutcomeOf(k)']
          = [[k \in Mails |-> OutcomeOf(k)] EXCEPT ![m] = "run"]
    BY <1>2, <2>1, Zenon
  <2> QED
    BY <1>1, <1>3, <2>2, Zenon DEF Entry!Accept, Verified
<1>4. ASSUME m \in sealed, queued'[m] = 0, rejected'[m] # <<>>
      PROVE  Entry!Refuse(m)
  <2>1. OutcomeOf(m)' = "rejected"
    BY <1>4 DEF OutcomeOf
  <2>2. [k \in Mails |-> OutcomeOf(k)']
          = [[k \in Mails |-> OutcomeOf(k)] EXCEPT ![m] = "rejected"]
    BY <1>2, <2>1, Zenon
  <2> QED
    BY <1>1, <1>4, <2>2, Zenon DEF Entry!Refuse
<1> QED
  BY <1>3, <1>4, Zenon

LEMMA SealSpendStep ==
    ASSUME IInv, NEW c \in Collectors, Seal(c) \/ PublishIngress(c) \/ ConsumeStamp(c)
    PROVE  IntakeStep
<1>d. PICK old \in ColState : old = col[c] /\ Holds(old)
  BY DEF IInv, Collecting
<1>m. PICK m \in Mails : m = Mail(c) /\ m = old.mail
  <2>1. old.pc \in {"seal", "context", "stamp"}
    BY <1>d DEF Seal, PublishIngress, ConsumeStamp, At
  <2> QED
    BY <1>d, <2>1 DEF Holds, ColState, Mail
<1>1. CASE Seal(c)
  <2>1. sealed' = sealed \cup {m} /\ UNCHANGED <<queued, rejected, stamps>>
    BY <1>1, <1>m DEF Seal, tables
  <2> QED
    BY <2>1, Sealed DEF IntakeStep
<1>2. CASE PublishIngress(c)
  <2>1. UNCHANGED <<sealed, queued, rejected, stamps>>
    BY <1>2 DEF PublishIngress, tables
  <2> QED
    BY <2>1, Unseen DEF IntakeStep
<1>3. CASE ConsumeStamp(c)
  <2>0. m \in sealed /\ UNCHANGED <<sealed, queued, rejected>>
    BY <1>3, <1>d, <1>m, CollectorAssumption DEF ConsumeStamp, Holds, At, tables
  <2>1. CASE UNCHANGED stamps
    BY <2>0, <2>1, Unseen DEF IntakeStep
  <2>2. CASE /\ Stamp[m] \in Decisions
             /\ stamps[Stamp[m]].by = NoMail
             /\ stamps' = [stamps EXCEPT ![Stamp[m]].by = m]
    <3>1. PICK d \in Decisions : d = Stamp[m]
      BY <2>2
    <3>2. stamps[d].by = NoMail /\ stamps' = [stamps EXCEPT ![d].by = m]
      BY <2>2, <3>1
    <3>3. stamps'[d].by = m /\ \A e \in Decisions \ {d} : stamps'[e].by = stamps[e].by
      BY <3>2 DEF IInv, StampsOK
    <3>4. Entry!Spend(m)
      BY <2>0, <3>1, <3>2, <3>3, Spent
    <3> QED
      BY <3>4 DEF IntakeStep
  <2> QED
    BY <1>3, <1>m, <2>1, <2>2 DEF ConsumeStamp
<1> QED
  BY <1>1, <1>2, <1>3

LEMMA SettleStep ==
    ASSUME IInv, NEW c \in Collectors, EnqueueAdmitted(c) \/ RecordRejected(c)
    PROVE  IntakeStep
<1>d. PICK old \in ColState : old = col[c] /\ Holds(old)
  BY DEF IInv, Collecting
<1>p. old.pc \in {"enqueue", "reject"}
  BY <1>d DEF EnqueueAdmitted, RecordRejected, At
<1>m. PICK m \in Mails : m = Mail(c) /\ m = old.mail /\ m \in sealed
  BY <1>d, <1>p DEF Holds, ColState, Mail
<1>t. queued \in [Mails -> Nat] /\ rejected \in [Mails -> Seq(Reason)]
  BY DEF IInv, Outcomes
<1>u. UNCHANGED <<sealed, stamps>> /\ queued[m] = 0 /\ rejected[m] = <<>>
  <2>1. m \notin deliveries
    BY <1>m DEF EnqueueAdmitted, RecordRejected, Record
  <2> QED
    BY <2>1, Unrecorded DEF EnqueueAdmitted, RecordRejected
<1>1. CASE EnqueueAdmitted(c)
  <2>1. queued' = [queued EXCEPT ![m] = queued[m] + 1] /\ UNCHANGED rejected /\ Verified(m)
    BY <1>1, <1>d, <1>m, Zenon DEF EnqueueAdmitted, At, Holds
  <2>2. /\ queued'[m] = 1
        /\ rejected'[m] = <<>>
        /\ \A k \in Mails \ {m} : queued'[k] = queued[k] /\ rejected'[k] = rejected[k]
    BY <1>t, <1>u, <2>1
  <2> QED
    BY <1>u, <2>1, <2>2, Settled, Zenon DEF IntakeStep
<1>2. CASE RecordRejected(c)
  <2>0. PICK rs \in Reason : rs = col[c].reason
    BY <1>2, <1>d, ZenonT(30) DEF RecordRejected, At, Holds
  <2>1. rejected' = [rejected EXCEPT ![m] = Append(rejected[m], rs)] /\ UNCHANGED queued
    BY <1>2, <1>m, <2>0, Zenon DEF RecordRejected
  <2>2. <<rs>> # <<>> /\ Append(<<>>, rs) = <<rs>>
    OBVIOUS
  <2>3. /\ queued'[m] = 0
        /\ rejected'[m] # <<>>
        /\ \A k \in Mails \ {m} : queued'[k] = queued[k] /\ rejected'[k] = rejected[k]
    BY <1>t, <1>u, <2>1, <2>2
  <2> QED
    BY <1>m, <1>u, <2>3, Settled, Zenon DEF IntakeStep
<1> QED
  BY <1>1, <1>2

LEMMA StepIntake == IInv /\ [Next]_vars => [Entry!IntakeNext]_(Entry!intake)
<1> SUFFICES ASSUME IInv, [Next]_vars PROVE IntakeStep
  BY DEF IntakeStep, Entry!IntakeNext
<1>0. CASE UNCHANGED <<sealed, queued, rejected>>
           /\ \A d \in Decisions : stamps'[d].by = stamps[d].by
  BY <1>0, Unseen DEF IntakeStep
<1>1. ASSUME NEW c \in Collectors, Collect(c) \/ Break(c) PROVE IntakeStep
  <2>1. CASE Seal(c) \/ PublishIngress(c) \/ ConsumeStamp(c)
    BY <2>1, SealSpendStep
  <2>2. CASE EnqueueAdmitted(c) \/ RecordRejected(c)
    BY <2>2, SettleStep
  <2>3. CASE EnqueueNotification(c)
    BY <1>0, <2>3 DEF EnqueueNotification
  <2>4. CASE \/ Start(c) \/ BeginSweep(c) \/ TakeEntry(c) \/ EndSweep(c)
             \/ SnapshotDestination(c) \/ Examine(c) \/ Refused(c) \/ Break(c)
    <3>1. UNCHANGED durable
      BY <2>4 DEF Start, BeginSweep, TakeEntry, EndSweep, SnapshotDestination, Examine, Refused,
                  Break, StampError, Fail, Kill, durable
    <3> QED
      BY <1>0, <3>1 DEF durable, tables
  <2> QED
    BY <1>1, <2>1, <2>2, <2>3, <2>4 DEF Collect
<1>2. CASE World
  <2>1. UNCHANGED <<sealed, queued, rejected>>
    BY <1>2 DEF World, Deliver, LeaseExpires, StampExpires, SubmitterChanges, tables
  <2>2. \A d \in Decisions : stamps'[d].by = stamps[d].by
    <3>1. CASE UNCHANGED stamps
      BY <3>1
    <3>2. ASSUME NEW d \in Decisions, StampExpires(d)
          PROVE  \A e \in Decisions : stamps'[e].by = stamps[e].by
      BY <3>2 DEF StampExpires, IInv, StampsOK
    <3> QED
      BY <1>2, <3>1, <3>2 DEF World, Deliver, LeaseExpires, SubmitterChanges
  <2> QED
    BY <1>0, <2>1, <2>2
<1>3. CASE UNCHANGED vars
  BY <1>0, <1>3 DEF vars, tables
<1> QED
  BY <1>1, <1>2, <1>3 DEF Next

\* However many collectors sweep at once, and wherever they stop, what they do
\* to a message is what Intake allows: it is sealed before anything else, a
\* stamp is spent on one message, and the outcome is given once.
THEOREM CollectorImplementsIntake == Spec => ImplementsIntake
<1>1. Init => Entry!IntakeInit
  BY DEF Init, Entry!IntakeInit, OutcomeOf
<1>2. IInv /\ [Next]_vars => [Entry!IntakeNext]_(Entry!intake)
  BY StepIntake
<1> QED
  BY <1>1, <1>2, Invariance, PTL DEF Spec, ImplementsIntake, Entry!IntakeSpec
=============================================================================
