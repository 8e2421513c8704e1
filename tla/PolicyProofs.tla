---------------------------- MODULE PolicyProofs ----------------------------
(***************************************************************************)
(* The policy and its audit, for any number of submitters, codes, tokens,  *)
(* commands and rules: only verified mailboxes are active, each version    *)
(* has the digest of the policy it put in force, and the versions chain.   *)
(*                                                                         *)
(* The argument.  A capability in force was drawn by an activation or a    *)
(* rotation (then it is in issued) or is the token of a confirmed rotation *)
(* (then that token is spent): neither is drawn again, so no two           *)
(* submitters share one.  The quotas and the rules that do not expire      *)
(* change only with the version, so between two versions they are those of *)
(* the version in force, in the tables as in the preview of every token    *)
(* that can still be confirmed.  That is also why they implement a         *)
(* register with an audit log (AuditedPolicy).                             *)
(***************************************************************************)
EXTENDS Policy, FiniteSetTheorems, TLAPS

\* In a module of this size the provers need more than their default time.
USE SMTT(30), ZenonT(30)

ChallengeState == {"unused", "open", "consumed", "expired"}

RuleState == {"absent", "enabled", "disabled"}

\* A row of policy_versions with its audit event.
VersionRow == [key     : Keys \cup {"none", "bootstrap-import"},
               before  : EffectivePolicies \cup {NoCommand},
               after   : EffectivePolicies \cup {NoCommand},
               policy  : EffectivePolicies,
               enabled : SUBSET Rules]

\* UNIQUE(canonical_address, status).
UniqueRows ==
    \A s, o \in Submitters :
      /\ submitters[s].status # "absent"
      /\ submitters[s].address = submitters[o].address
      /\ submitters[s].status = submitters[o].status
      => s = o

Tables ==
    /\ submitters \in [Submitters -> Submitter]
    /\ UniqueRows
    /\ challenges \in [Codes -> [state : ChallengeState,
                                 submitter : Submitters \cup {NoSubmitter}]]
    /\ cap \in [Submitters -> Caps \cup {NoCap}]
    /\ issued \subseteq Secrets
    /\ rules \in [Rules -> RuleState]
    /\ expired \subseteq Rules
    /\ \A r \in expired : Shape[r].expires
    /\ versions \in Seq(VersionRow)

\* A code in use names a row, and an enrolled submitter returned one.
Enrolled ==
    /\ \A c \in Codes : challenges[c].state # "unused" =>
         /\ challenges[c].submitter \in Submitters
         /\ submitters[challenges[c].submitter].status # "absent"
    /\ \A s \in Submitters : submitters[s].status \in {"active", "revoked"} =>
         /\ \E c \in Codes : challenges[c].state = "consumed" /\ challenges[c].submitter = s
         /\ cap[s] # NoCap

\* Where a capability in force comes from, and that it is in force once.
Drawn ==
    /\ \A s \in Submitters : cap[s] \in Secrets => cap[s] \in issued
    /\ \A s \in Submitters : cap[s] \in Tokens => tokens[cap[s]].state = "spent"
    /\ \A s, o \in Submitters : s # o /\ cap[s] # NoCap => cap[s] # cap[o]

\* A token that can be confirmed.
OpenToken(tok) ==
    /\ tok.command \in Command
    /\ tok.key \in Keys
    /\ tok.before \in EffectivePolicies
    /\ tok.after \in EffectivePolicies

TokensOK ==
    /\ tokens \in [Tokens -> Token]
    /\ \A t \in Tokens : tokens[t].state = "open" => OpenToken(tokens[t])

Enabled == {r \in Rules : rules[r] = "enabled"}

\* What has not changed since the version in force was committed.
Chained ==
    /\ \A s \in Submitters : submitters[s].status = "absent" \/ Version = 0
                              => submitters[s].limit = DefaultLimit
    /\ Version = 0 => Enabled = {}
    /\ Version > 0 => /\ Versioned(versions[Version].policy) = VersionedOf(submitters, rules)
                      /\ versions[Version].enabled = Enabled
    /\ \A t \in Tokens :
         tokens[t].state = "open" /\ tokens[t].version = Version =>
           Versioned(tokens[t].before) = VersionedOf(submitters, rules)
    /\ VersionsDigestTheirPolicy
    /\ AuditChain

PInv == Tables /\ Enrolled /\ Drawn /\ TokensOK /\ Chained

-----------------------------------------------------------------------------
(***************************************************************************)
(* Effective policies                                                      *)
(***************************************************************************)
LEMMA RuleCount ==
    ASSUME NEW rls, NEW sh
    PROVE  /\ Cardinality({r \in Rules \ expired : rls[r] = "enabled" /\ Shape[r] = sh})
                \in 0 .. Cardinality(Rules)
           /\ Cardinality(Rules) \in Nat
<1>1. PICK S : S = {r \in Rules \ expired : rls[r] = "enabled" /\ Shape[r] = sh}
  BY Zenon
<1>2. S \subseteq Rules /\ IsFiniteSet(Rules)
  BY <1>1, PolicyAssumption
<1>3. IsFiniteSet(S) /\ Cardinality(S) <= Cardinality(Rules)
  BY <1>2, FS_Subset
<1>4. Cardinality(S) \in Nat /\ Cardinality(Rules) \in Nat
  BY <1>2, <1>3, FS_CardinalityType
<1> QED
  BY <1>1, <1>3, <1>4

LEMMA EffectiveType ==
    ASSUME NEW subs \in [Submitters -> Submitter],
           NEW caps \in [Submitters -> Caps \cup {NoCap}], NEW rls
    PROVE  /\ EffectivePolicy(subs, caps, rls) \in EffectivePolicies
           /\ \A sh \in Shapes :
                EffectivePolicy(subs, caps, rls).rules[sh] \in 0 .. Cardinality(Rules)
           /\ Cardinality(Rules) \in Nat
<1>1. PICK n \in Nat : n = Cardinality(Rules)
  BY RuleCount, Zenon
<1>2. PICK rc : rc = [sh \in Shapes |-> Cardinality({r \in Rules \ expired :
                                                    rls[r] = "enabled" /\ Shape[r] = sh})]
  BY Zenon
<1>3. ASSUME NEW sh \in Shapes PROVE rc[sh] \in 0 .. n
  <2>1. rc[sh] = Cardinality({r \in Rules \ expired : rls[r] = "enabled" /\ Shape[r] = sh})
    BY <1>2
  <2>2. Cardinality({r \in Rules \ expired : rls[r] = "enabled" /\ Shape[r] = sh})
          \in 0 .. Cardinality(Rules)
    BY RuleCount, Zenon
  <2> QED
    BY <1>1, <2>1, <2>2
<1>4. rc \in [Shapes -> 0 .. n + 1]
  BY <1>2, <1>3
<1>5. PICK sb : sb = [s \in Submitters |-> [status |-> subs[s].status, limit |-> subs[s].limit]]
  BY Zenon
<1>6. sb \in [Submitters -> [status : Status, limit : Limits]]
  BY <1>5 DEF Submitter
<1>7. EffectivePolicy(subs, caps, rls) = [submitters |-> sb, caps |-> caps, rules |-> rc]
  BY <1>2, <1>5 DEF EffectivePolicy
<1> QED
  BY <1>1, <1>3, <1>4, <1>6, <1>7 DEF EffectivePolicies

LEMMA VersionedEffective ==
    ASSUME \A r \in expired : Shape[r].expires, NEW subs, NEW caps, NEW rls
    PROVE  Versioned(EffectivePolicy(subs, caps, rls)) = VersionedOf(subs, rls)
<1>1. ASSUME NEW sh \in Lasting
      PROVE  {r \in Rules \ expired : rls[r] = "enabled" /\ Shape[r] = sh}
               = {r \in Rules : rls[r] = "enabled" /\ Shape[r] = sh}
  BY DEF Lasting
<1>2. PICK p : p = EffectivePolicy(subs, caps, rls)
  OBVIOUS
<1>3. \A s \in Submitters : p.submitters[s].limit = subs[s].limit
  BY <1>2 DEF EffectivePolicy
<1>4. \A sh \in Lasting :
        p.rules[sh] = Cardinality({r \in Rules : rls[r] = "enabled" /\ Shape[r] = sh})
  BY <1>1, <1>2 DEF EffectivePolicy, Lasting
<1> QED
  BY <1>2, <1>3, <1>4, Zenon DEF Versioned, VersionedOf

-----------------------------------------------------------------------------
(***************************************************************************)
(* Changes of rows                                                         *)
(***************************************************************************)
LEMMA StatusRows ==
    ASSUME Tables, NEW s \in Submitters, NEW st \in Status,
           st = submitters[s].status \/ Vacant(s, submitters[s].address, st),
           SetStatus(s, st)
    PROVE  /\ submitters' \in [Submitters -> Submitter]
           /\ UniqueRows'
           /\ submitters'[s].status = st
           /\ \A o \in Submitters \ {s} : submitters'[o] = submitters[o]
           /\ \A o \in Submitters : submitters'[o].limit = submitters[o].limit
<1>1. submitters \in [Submitters -> Submitter]
  BY DEF Tables
<1>2. PICK row : row = [submitters[s] EXCEPT !.status = st]
  BY Zenon
<1>3. /\ row \in Submitter
      /\ row.status = st
      /\ row.address = submitters[s].address
      /\ row.limit = submitters[s].limit
  BY <1>1, <1>2 DEF Submitter
<1>4. submitters' = [submitters EXCEPT ![s] = row]
  BY <1>1, <1>2 DEF SetStatus
<1>5. submitters'[s] = row /\ \A o \in Submitters \ {s} : submitters'[o] = submitters[o]
  BY <1>1, <1>4
<1>6. submitters' \in [Submitters -> Submitter]
  BY <1>1, <1>3, <1>4
<1>7. UniqueRows'
  <2>1. ASSUME NEW x \in Submitters, NEW o \in Submitters,
               submitters'[x].status # "absent",
               submitters'[x].address = submitters'[o].address,
               submitters'[x].status = submitters'[o].status
        PROVE  x = o
    BY <1>3, <1>5, <2>1 DEF Tables, UniqueRows, Vacant
  <2> QED
    BY <2>1 DEF UniqueRows
<1> QED
  BY <1>3, <1>5, <1>6, <1>7

\* A row is only inserted for an address without a pending row.
LEMMA PendingRow ==
    ASSUME Tables, NEW s \in Submitters, NEW a \in Addresses,
           submitters[s].status = "absent", Vacant(s, a, "pending"),
           submitters' = [submitters EXCEPT ![s] = [status |-> "pending", address |-> a,
                                                    limit |-> DefaultLimit]]
    PROVE  /\ submitters' \in [Submitters -> Submitter]
           /\ UniqueRows'
           /\ submitters'[s].status = "pending"
           /\ submitters'[s].limit = DefaultLimit
           /\ \A o \in Submitters \ {s} : submitters'[o] = submitters[o]
<1>1. submitters \in [Submitters -> Submitter] /\ DefaultLimit \in Limits
  BY PolicyAssumption DEF Tables
<1>2. PICK row : row = [status |-> "pending", address |-> a, limit |-> DefaultLimit]
  BY Zenon
<1>3. /\ row \in Submitter
      /\ row.status = "pending"
      /\ row.address = a
      /\ row.limit = DefaultLimit
  BY <1>1, <1>2 DEF Submitter, Status
<1>5. submitters'[s] = row /\ \A o \in Submitters \ {s} : submitters'[o] = submitters[o]
  BY <1>1, <1>2
<1>6. submitters' \in [Submitters -> Submitter]
  BY <1>1, <1>2, <1>3
<1>7. UniqueRows'
  <2>1. ASSUME NEW x \in Submitters, NEW o \in Submitters,
               submitters'[x].status # "absent",
               submitters'[x].address = submitters'[o].address,
               submitters'[x].status = submitters'[o].status
        PROVE  x = o
    BY <1>3, <1>5, <2>1 DEF Tables, UniqueRows, Vacant
  <2> QED
    BY <2>1 DEF UniqueRows
<1> QED
  BY <1>3, <1>5, <1>6, <1>7

LEMMA LimitRow ==
    ASSUME Tables, NEW s \in Submitters, NEW l \in Limits,
           submitters' = [submitters EXCEPT ![s].limit = l]
    PROVE  /\ submitters' \in [Submitters -> Submitter]
           /\ UniqueRows'
           /\ \A o \in Submitters : submitters'[o].status = submitters[o].status
           /\ \A o \in Submitters \ {s} : submitters'[o] = submitters[o]
<1>1. submitters \in [Submitters -> Submitter]
  BY DEF Tables
<1>2. PICK row : row = [submitters[s] EXCEPT !.limit = l]
  BY Zenon
<1>3. /\ row \in Submitter
      /\ row.status = submitters[s].status
      /\ row.address = submitters[s].address
  BY <1>1, <1>2 DEF Submitter
<1>4. submitters' = [submitters EXCEPT ![s] = row]
  BY <1>1, <1>2
<1>5. submitters'[s] = row /\ \A o \in Submitters \ {s} : submitters'[o] = submitters[o]
  BY <1>1, <1>4
<1>6. submitters' \in [Submitters -> Submitter]
  BY <1>1, <1>3, <1>4
<1>7. UniqueRows'
  BY <1>3, <1>5 DEF Tables, UniqueRows
<1> QED
  BY <1>3, <1>5, <1>6, <1>7

\* What the statements of a command can do to the tables.
LEMMA ApplyRows ==
    ASSUME Tables, NEW command \in Command, NEW t \in Tokens, Apply(command, t)
    PROVE  /\ submitters' \in [Submitters -> Submitter]
           /\ UniqueRows'
           /\ \A s \in Submitters :
                /\ submitters'[s].status # submitters[s].status =>
                     /\ submitters[s].status \in {"active", "revoked"}
                     /\ submitters'[s].status \in {"active", "revoked"}
                /\ submitters[s].status = "absent" => submitters'[s].limit = submitters[s].limit
           /\ \/ UNCHANGED cap
              \/ \E s \in Submitters : cap[s] # NoCap /\ cap' = [cap EXCEPT ![s] = t]
           /\ rules' \in [Rules -> RuleState]
<1>0. /\ submitters \in [Submitters -> Submitter]
      /\ UniqueRows
      /\ rules \in [Rules -> RuleState]
      /\ {"active", "revoked"} \subseteq Status
      /\ {"enabled", "disabled"} \subseteq RuleState
  BY DEF Tables, Status, RuleState
<1>1. CASE command.type = "quota_change" /\ QuotaChange(command.submitter, command.limit)
  <2>1. PICK s \in Submitters, l \in Limits : s = command.submitter /\ l = command.limit
    BY <1>1 DEF Command
  <2>2. /\ submitters[s].status # "absent"
        /\ submitters' = [submitters EXCEPT ![s].limit = l]
        /\ UNCHANGED <<cap, rules>>
    BY <1>1, <2>1 DEF QuotaChange
  <2> QED
    BY <1>0, <2>2, LimitRow, Zenon
<1>2. CASE command.type = "submitter_suspend" /\ Suspend(command.submitter)
  <2>1. PICK s \in Submitters : s = command.submitter
    BY <1>2 DEF Command
  <2>2. PICK st \in Status : st = "revoked"
    BY <1>0
  <2>3. /\ submitters[s].status = "active"
        /\ Vacant(s, submitters[s].address, st)
        /\ SetStatus(s, st)
        /\ UNCHANGED <<cap, rules>>
    BY <1>2, <2>1, <2>2 DEF Suspend
  <2> QED
    BY <1>0, <2>2, <2>3, StatusRows
<1>3. CASE command.type = "submitter_reactivate" /\ Reactivate(command.submitter)
  <2>1. PICK s \in Submitters : s = command.submitter
    BY <1>3 DEF Command
  <2>2. PICK st \in Status : st = "active"
    BY <1>0
  <2>3. /\ submitters[s].status = "revoked"
        /\ Vacant(s, submitters[s].address, st)
        /\ SetStatus(s, st)
        /\ UNCHANGED <<cap, rules>>
    BY <1>3, <2>1, <2>2 DEF Reactivate
  <2> QED
    BY <1>0, <2>2, <2>3, StatusRows
<1>4. CASE command.type = "capability_rotate" /\ RotateTo(command.submitter, t)
  <2>1. PICK s \in Submitters : s = command.submitter
    BY <1>4 DEF Command
  <2>2. cap[s] # NoCap /\ cap' = [cap EXCEPT ![s] = t] /\ UNCHANGED <<submitters, rules>>
    BY <1>4, <2>1 DEF RotateTo
  <2> QED
    BY <1>0, <2>2, Zenon DEF UniqueRows
<1>5. CASE command.type = "rule_put" /\ RulePut(command.shape)
  <2>1. UNCHANGED <<submitters, cap>> /\ rules' \in [Rules -> RuleState]
    BY <1>0, <1>5 DEF RulePut
  <2> QED
    BY <1>0, <2>1 DEF UniqueRows
<1>6. CASE command.type = "rule_disable" /\ RuleDisable(command.rule)
  <2>1. UNCHANGED <<submitters, cap>> /\ rules' \in [Rules -> RuleState]
    BY <1>0, <1>6, Zenon DEF RuleDisable
  <2> QED
    BY <1>0, <2>1 DEF UniqueRows
<1> QED
  BY <1>1, <1>2, <1>3, <1>4, <1>5, <1>6 DEF Apply

-----------------------------------------------------------------------------
(***************************************************************************)
(* What leaves a part of the invariant alone                               *)
(***************************************************************************)
LEMMA EnrolledStays ==
    ASSUME Enrolled,
           \A c \in Codes : /\ challenges'[c].submitter = challenges[c].submitter
                            /\ \/ challenges'[c].state = challenges[c].state
                               \/ /\ challenges[c].state = "open"
                                  /\ challenges'[c].state = "expired",
           \A s \in Submitters :
             submitters'[s].status # submitters[s].status =>
               /\ submitters[s].status \in {"active", "revoked"}
               /\ submitters'[s].status \in {"active", "revoked"},
           \A s \in Submitters : cap[s] # NoCap => cap'[s] # NoCap
    PROVE  Enrolled'
<1>1. ASSUME NEW c \in Codes, challenges'[c].state # "unused"
      PROVE  /\ challenges'[c].submitter \in Submitters
             /\ submitters'[challenges'[c].submitter].status # "absent"
  BY <1>1 DEF Enrolled
<1>2. ASSUME NEW s \in Submitters, submitters'[s].status \in {"active", "revoked"}
      PROVE  /\ \E c \in Codes : challenges'[c].state = "consumed" /\ challenges'[c].submitter = s
             /\ cap'[s] # NoCap
  <2>1. submitters[s].status \in {"active", "revoked"}
    BY <1>2
  <2>2. PICK c \in Codes : challenges[c].state = "consumed" /\ challenges[c].submitter = s
    BY <2>1 DEF Enrolled
  <2>3. challenges'[c].state = "consumed" /\ challenges'[c].submitter = s
    BY <2>2
  <2> QED
    BY <2>1, <2>3 DEF Enrolled
<1> QED
  BY <1>1, <1>2 DEF Enrolled

LEMMA DrawnStays ==
    ASSUME Drawn, UNCHANGED cap, issued \subseteq issued',
           \A t \in Tokens : tokens[t].state = "spent" => tokens'[t].state = "spent"
    PROVE  Drawn'
BY DEF Drawn

\* A value that is not in force is put in force for s.
LEMMA DrawnNew ==
    ASSUME Tables, Drawn, NEW s \in Submitters, NEW x \in Caps,
           \A o \in Submitters : cap[o] # x,
           cap' = [cap EXCEPT ![s] = x],
           x \in Secrets => x \in issued',
           x \in Tokens => tokens'[x].state = "spent",
           issued \subseteq issued',
           \A t \in Tokens : tokens[t].state = "spent" => tokens'[t].state = "spent"
    PROVE  Drawn' /\ cap' \in [Submitters -> Caps \cup {NoCap}] /\ cap'[s] # NoCap
           /\ \A o \in Submitters : cap[o] # NoCap => cap'[o] # NoCap
<1>0. cap \in [Submitters -> Caps \cup {NoCap}] /\ x # NoCap
  BY PolicyAssumption DEF Tables, Caps
<1>1. /\ cap' \in [Submitters -> Caps \cup {NoCap}]
      /\ cap'[s] = x
      /\ \A o \in Submitters \ {s} : cap'[o] = cap[o]
  BY <1>0
<1>2. \A o \in Submitters : cap'[o] \in Secrets => cap'[o] \in issued'
  BY <1>1 DEF Drawn
<1>3. \A o \in Submitters : cap'[o] \in Tokens => tokens'[cap'[o]].state = "spent"
  BY <1>1 DEF Drawn
<1>4. \A a, o \in Submitters : a # o /\ cap'[a] # NoCap => cap'[a] # cap'[o]
  BY <1>1 DEF Drawn
<1> QED
  BY <1>0, <1>1, <1>2, <1>3, <1>4 DEF Drawn

\* Between two versions.
LEMMA ChainedStays ==
    ASSUME Tables, Chained, UNCHANGED <<rules, versions>>,
           \A s \in Submitters :
             /\ submitters'[s].limit = submitters[s].limit
             /\ submitters'[s].status = "absent" => submitters[s].status = "absent",
           \A t \in Tokens : tokens'[t].state = "open" =>
             \/ tokens'[t] = tokens[t]
             \/ Versioned(tokens'[t].before) = VersionedOf(submitters, rules)
    PROVE  Chained'
<1>1. VersionedOf(submitters, rules)' = VersionedOf(submitters, rules)
  BY Zenon DEF VersionedOf
<1>2. Version' = Version /\ Enabled' = Enabled
  BY DEF Version, Enabled
<1>3. \A s \in Submitters : submitters'[s].status = "absent" \/ Version' = 0
                              => submitters'[s].limit = DefaultLimit
  BY <1>2 DEF Chained
<1>4. /\ Version' = 0 => Enabled' = {}
      /\ Version' > 0 => /\ Versioned(versions'[Version'].policy) = VersionedOf(submitters, rules)'
                         /\ versions'[Version'].enabled = Enabled'
  BY <1>1, <1>2 DEF Chained
<1>5. \A t \in Tokens :
         tokens'[t].state = "open" /\ tokens'[t].version = Version' =>
           Versioned(tokens'[t].before) = VersionedOf(submitters, rules)'
  BY <1>1, <1>2 DEF Chained
<1>6. VersionsDigestTheirPolicy' /\ AuditChain'
  BY <1>2 DEF Chained, VersionsDigestTheirPolicy, AuditChain, ByCommand
<1> QED
  BY <1>3, <1>4, <1>5, <1>6 DEF Chained, Versioned

\* A version is committed.
LEMMA ChainedCommit ==
    ASSUME Tables, Chained, TokensOK, NEW row \in VersionRow,
           versions' = Append(versions, row),
           \A s \in Submitters :
             submitters'[s].status = "absent" => submitters'[s].limit = DefaultLimit,
           Versioned(row.policy) = VersionedOf(submitters, rules)',
           row.enabled = Enabled',
           \/ row.before = NoCommand
           \/ /\ row.after = row.policy
              /\ Versioned(row.before) = VersionedOf(submitters, rules),
           \A t \in Tokens : tokens'[t].state = "open" => tokens'[t] = tokens[t]
    PROVE  Chained' /\ versions' \in Seq(VersionRow) /\ Version' = Version + 1
<1>0. versions \in Seq(VersionRow) /\ Version \in Nat
  BY DEF Tables, Version
<1>1. /\ versions' \in Seq(VersionRow)
      /\ Version' = Version + 1
      /\ versions'[Version + 1] = row
      /\ \A v \in 1 .. Version : versions'[v] = versions[v]
  BY <1>0 DEF Version
<1>3. \A t \in Tokens : ~(tokens'[t].state = "open" /\ tokens'[t].version = Version')
  <2>1. \A t \in Tokens : tokens[t].version \in 0 .. Version
    BY DEF TokensOK, Token
  <2> QED
    BY <1>0, <1>1, <2>1
<1>n. PICK n \in Nat : n = Version /\ n + 1 = Version'
  BY <1>0, <1>1
<1>v. versions'[n + 1] = row /\ \A v \in 1 .. n : versions'[v] = versions[v]
  BY <1>1, <1>n, Zenon
<1>4. VersionsDigestTheirPolicy'
  <2>1. ASSUME NEW v \in 1 .. n + 1, versions'[v].before # NoCommand
        PROVE  versions'[v].after = versions'[v].policy
    <3>1. CASE v = n + 1
      BY <1>v, <2>1, <3>1, Zenon
    <3>2. CASE v \in 1 .. n
      BY <1>n, <1>v, <2>1, <3>2, Zenon DEF ByCommand, Chained, VersionsDigestTheirPolicy
    <3>3. v = n + 1 \/ v \in 1 .. n
      OBVIOUS
    <3> QED
      BY <3>1, <3>2, <3>3, Zenon
  <2> QED
    BY <1>n, <2>1, Zenon DEF VersionsDigestTheirPolicy, ByCommand
<1>5. AuditChain'
  <2>1. ASSUME NEW v \in 2 .. n + 1, versions'[v].before # NoCommand
        PROVE  Versioned(versions'[v].before) = Versioned(versions'[v - 1].policy)
    <3>1. CASE v = n + 1
      <4>0. v - 1 = n /\ n > 0 /\ n \in 1 .. n
        BY <3>1
      <4>1. versions'[v - 1] = versions[n] /\ n > 0 /\ versions'[v] = row
        BY <1>v, <3>1, <4>0, Zenon
      <4>2. Versioned(row.before) = VersionedOf(submitters, rules)
        BY <2>1, <4>1
      <4> QED
        BY <1>n, <4>1, <4>2 DEF Chained
    <3>2. CASE v \in 2 .. n
      <4>1. v \in 1 .. n /\ v - 1 \in 1 .. n
        BY <1>n, <3>2
      <4>2. versions'[v] = versions[v] /\ versions'[v - 1] = versions[v - 1]
        BY <1>v, <4>1, Zenon
      <4> QED
        BY <1>n, <2>1, <3>2, <4>2 DEF ByCommand, Chained, AuditChain
    <3>3. v = n + 1 \/ v \in 2 .. n
      OBVIOUS
    <3> QED
      BY <3>1, <3>2, <3>3, Zenon
  <2> QED
    BY <1>n, <2>1, Zenon DEF AuditChain, Versioned, ByCommand
<1>6. /\ ~(Version' = 0)
      /\ Versioned(versions'[Version'].policy) = VersionedOf(submitters, rules)'
      /\ versions'[Version'].enabled = Enabled'
  BY <1>0, <1>1
<1> QED
  BY <1>1, <1>3, <1>4, <1>5, <1>6 DEF Chained, Versioned

-----------------------------------------------------------------------------
(***************************************************************************)
(* Tokens                                                                  *)
(***************************************************************************)
LEMMA ProjectedType ==
    ASSUME NEW p \in EffectivePolicies, NEW command \in Command, NEW t \in Tokens,
           \A sh \in Shapes : p.rules[sh] \in 0 .. Cardinality(Rules),
           Cardinality(Rules) \in Nat
    PROVE  ProjectedPolicy(p, command, t) \in EffectivePolicies
<1>1. PICK sb \in [Submitters -> [status : Status, limit : Limits]],
           cp \in [Submitters -> Caps \cup {NoCap}],
           rc \in [Shapes -> 0 .. Cardinality(Rules) + 1] :
        p = [submitters |-> sb, caps |-> cp, rules |-> rc]
  BY DEF EffectivePolicies
<1>s. ASSUME NEW x \in [Submitters -> [status : Status, limit : Limits]]
      PROVE  [p EXCEPT !.submitters = x] \in EffectivePolicies
  BY DEF EffectivePolicies
<1>2. CASE command.type = "quota_change"
  <2>1. PICK s \in Submitters, l \in Limits : s = command.submitter /\ l = command.limit
    BY <1>2 DEF Command
  <2>2. Amended(p.submitters, s, "limit", l) \in [Submitters -> [status : Status, limit : Limits]]
    BY <1>1 DEF Amended
  <2> QED
    BY <1>2, <1>s, <2>1, <2>2 DEF ProjectedPolicy
<1>3. ASSUME NEW st \in Status, NEW s \in Submitters
      PROVE  Amended(p.submitters, s, "status", st)
               \in [Submitters -> [status : Status, limit : Limits]]
  BY <1>1 DEF Amended
<1>4. CASE command.type = "submitter_suspend"
  <2>1. PICK s \in Submitters, st \in Status : s = command.submitter /\ st = "revoked"
    BY <1>4 DEF Command, Status
  <2> QED
    BY <1>4, <1>3, <1>s, <2>1, Zenon DEF ProjectedPolicy
<1>5. CASE command.type = "submitter_reactivate"
  <2>1. PICK s \in Submitters, st \in Status : s = command.submitter /\ st = "active"
    BY <1>5 DEF Command, Status
  <2> QED
    BY <1>5, <1>3, <1>s, <2>1, Zenon DEF ProjectedPolicy
<1>6. CASE command.type = "capability_rotate"
  <2>1. PICK s \in Submitters : s = command.submitter
    BY <1>6 DEF Command
  <2>2. t \in Caps \cup {NoCap}
    BY DEF Caps
  <2>3. [p EXCEPT !.caps[s] = t] \in EffectivePolicies
    BY <2>2, Zenon DEF EffectivePolicies
  <2> QED
    BY <1>6, <2>1, <2>3 DEF ProjectedPolicy
<1>7. CASE command.type = "rule_put"
  <2>1. PICK sh \in Shapes : sh = command.shape
    BY <1>7 DEF Command
  <2>2. PICK k : k = p.rules[sh] + 1
    OBVIOUS
  <2>3. k \in 0 .. Cardinality(Rules) + 1
    BY <2>2
  <2>4. [p EXCEPT !.rules[sh] = k] \in EffectivePolicies
    BY <2>3, Zenon DEF EffectivePolicies
  <2>5. [p EXCEPT !.rules[sh] = @ + 1] = [p EXCEPT !.rules[sh] = k]
    BY <2>2
  <2> QED
    BY <1>7, <2>1, <2>4, <2>5 DEF ProjectedPolicy
<1>8. CASE command.type = "rule_disable"
  BY <1>8 DEF ProjectedPolicy
<1>9. command.type \in {"quota_change", "submitter_suspend", "submitter_reactivate",
                       "capability_rotate", "rule_put", "rule_disable"}
  BY DEF Command
<1> QED
  BY <1>2, <1>4, <1>5, <1>6, <1>7, <1>8, <1>9

LEMMA TokensStay ==
    ASSUME TokensOK, UNCHANGED tokens, Version \in Nat, Version' \in Nat, Version <= Version'
    PROVE  TokensOK'
<1>1. ASSUME NEW tok \in Token
      PROVE  tok \in Token'
  BY DEF Token
<1> QED
  BY <1>1 DEF TokensOK

LEMMA TokenWritten ==
    ASSUME TokensOK, Version \in Nat, Version' \in Nat, Version <= Version',
           NEW t \in Tokens, NEW tok, tok \in Token', tokens' = [tokens EXCEPT ![t] = tok],
           tok.state = "open" => OpenToken(tok)
    PROVE  /\ TokensOK'
           /\ tokens'[t] = tok
           /\ \A o \in Tokens \ {t} : tokens'[o] = tokens[o]
<1>1. ASSUME NEW x \in Token
      PROVE  x \in Token'
  BY DEF Token
<1>2. /\ tokens'[t] = tok
      /\ \A o \in Tokens \ {t} : tokens'[o] = tokens[o]
  BY DEF TokensOK
<1>3. tokens' \in [Tokens -> Token']
  BY <1>1 DEF TokensOK
<1> QED
  BY <1>2, <1>3 DEF TokensOK

LEMMA SpentType ==
    ASSUME Version \in Nat
    PROVE  Spent \in Token /\ Spent.state = "spent"
<1>1. PICK v \in 0 .. Version : v = 0
  OBVIOUS
<1>2. Spent = [state |-> "spent", command |-> NoCommand, key |-> "none",
               version |-> v, before |-> NoCommand, after |-> NoCommand]
  BY <1>1 DEF Spent, NoToken
<1> QED
  BY <1>2 DEF Token

-----------------------------------------------------------------------------
(***************************************************************************)
(* Enrollment keeps the invariant                                          *)
(***************************************************************************)
LEMMA SameVersion ==
    ASSUME Tables, UNCHANGED versions
    PROVE  Version \in Nat /\ Version' = Version /\ Version <= Version'
BY DEF Tables, Version

LEMMA ChallengeStep ==
    ASSUME PInv, NEW s \in Submitters, NEW a \in Addresses, NEW c \in Codes, Challenge(s, a, c)
    PROVE  PInv'
<1>0. Tables /\ Enrolled /\ Drawn /\ TokensOK /\ Chained
  BY DEF PInv
<1>1. UNCHANGED <<cap, issued, rules, expired, versions, tokens>>
      /\ challenges[c].state = "unused"
      /\ challenges' = [challenges EXCEPT ![c] = [state |-> "open", submitter |-> s]]
  BY DEF Challenge
<1>2. /\ submitters' \in [Submitters -> Submitter]
      /\ UniqueRows'
      /\ submitters'[s].status = "pending"
      /\ submitters'[s].limit = submitters[s].limit
      /\ submitters[s].status \in {"absent", "pending"}
      /\ \A o \in Submitters \ {s} : submitters'[o] = submitters[o]
  <2>1. CASE submitters[s].status = "pending" /\ UNCHANGED submitters
    BY <1>0, <2>1 DEF Tables, UniqueRows
  <2>2. CASE /\ submitters[s].status = "absent"
             /\ Vacant(s, a, "pending")
             /\ submitters' = [submitters EXCEPT ![s] = [status |-> "pending", address |-> a,
                                                         limit |-> DefaultLimit]]
    <3>1. submitters[s].limit = DefaultLimit
      BY <1>0, <2>2 DEF Chained
    <3> QED
      BY <1>0, <2>2, <3>1, PendingRow, Zenon
  <2> QED
    BY <2>1, <2>2 DEF Challenge
<1>3. PICK ch : ch = [state |-> "open", submitter |-> s]
  BY Zenon
<1>4. /\ ch \in [state : ChallengeState, submitter : Submitters \cup {NoSubmitter}]
      /\ ch.state = "open"
      /\ ch.submitter = s
  BY <1>3 DEF ChallengeState
<1>5. /\ challenges' \in [Codes -> [state : ChallengeState,
                                    submitter : Submitters \cup {NoSubmitter}]]
      /\ challenges'[c] = ch
      /\ \A d \in Codes \ {c} : challenges'[d] = challenges[d]
  BY <1>0, <1>1, <1>3, <1>4 DEF Tables
<1>6. Tables'
  BY <1>0, <1>1, <1>2, <1>5 DEF Tables
<1>7. Enrolled'
  <2>1. ASSUME NEW d \in Codes, challenges'[d].state # "unused"
        PROVE  /\ challenges'[d].submitter \in Submitters
               /\ submitters'[challenges'[d].submitter].status # "absent"
    BY <1>0, <1>2, <1>4, <1>5, <2>1 DEF Enrolled
  <2>2. ASSUME NEW o \in Submitters, submitters'[o].status \in {"active", "revoked"}
        PROVE  /\ \E d \in Codes : /\ challenges'[d].state = "consumed"
                                    /\ challenges'[d].submitter = o
               /\ cap'[o] # NoCap
    <3>1. o # s /\ submitters[o].status \in {"active", "revoked"}
      BY <1>2, <2>2
    <3>2. PICK d \in Codes : challenges[d].state = "consumed" /\ challenges[d].submitter = o
      BY <1>0, <3>1 DEF Enrolled
    <3>3. d # c /\ challenges'[d] = challenges[d]
      BY <1>1, <1>5, <3>2
    <3> QED
      BY <1>0, <1>1, <3>1, <3>2, <3>3 DEF Enrolled
  <2> QED
    BY <2>1, <2>2 DEF Enrolled
<1>8. Drawn' /\ TokensOK'
  BY <1>0, <1>1, DrawnStays, TokensStay, SameVersion
<1>9. Chained'
  <2>1. \A o \in Submitters :
          /\ submitters'[o].limit = submitters[o].limit
          /\ submitters'[o].status = "absent" => submitters[o].status = "absent"
    BY <1>2
  <2> QED
    BY <1>0, <1>1, <2>1, ChainedStays
<1> QED
  BY <1>6, <1>7, <1>8, <1>9 DEF PInv

LEMMA ActivateStep ==
    ASSUME PInv, NEW c \in Codes, NEW secret \in Secrets, Activate(c, secret)
    PROVE  PInv'
<1>0. Tables /\ Enrolled /\ Drawn /\ TokensOK /\ Chained
  BY DEF PInv
<1>1. PICK s \in Submitters : s = challenges[c].submitter
  BY <1>0 DEF Activate, Enrolled
<1>2. /\ challenges[c].state = "open"
      /\ submitters[s].status # "active"
      /\ cap[s] = NoCap
      /\ secret \notin issued
      /\ submitters[s].status = "pending" => Vacant(s, submitters[s].address, "active")
      /\ SetStatus(s, IF submitters[s].status = "pending" THEN "active"
                      ELSE submitters[s].status)
      /\ challenges' = [challenges EXCEPT ![c].state = "consumed"]
      /\ cap' = [cap EXCEPT ![s] = secret]
      /\ issued' = issued \cup {secret}
      /\ UNCHANGED <<rules, expired, versions, tokens>>
  BY <1>1 DEF Activate
<1>3. submitters[s].status = "pending"
  <2>1. submitters[s].status \in Status /\ submitters[s].status # "absent"
    BY <1>0, <1>1, <1>2 DEF Tables, Submitter, Enrolled
  <2>2. submitters[s].status # "revoked"
    BY <1>0, <1>2 DEF Enrolled
  <2> QED
    BY <1>2, <2>1, <2>2 DEF Status
<1>4. PICK st \in Status : st = "active"
  BY DEF Status
<1>5. /\ submitters' \in [Submitters -> Submitter]
      /\ UniqueRows'
      /\ submitters'[s].status = "active"
      /\ \A o \in Submitters \ {s} : submitters'[o] = submitters[o]
      /\ \A o \in Submitters : submitters'[o].limit = submitters[o].limit
  <2>1. SetStatus(s, st) /\ Vacant(s, submitters[s].address, st)
    BY <1>2, <1>3, <1>4
  <2> QED
    BY <1>0, <1>4, <2>1, StatusRows
<1>6. /\ challenges' \in [Codes -> [state : ChallengeState,
                                    submitter : Submitters \cup {NoSubmitter}]]
      /\ challenges'[c].state = "consumed"
      /\ challenges'[c].submitter = s
      /\ \A d \in Codes \ {c} : challenges'[d] = challenges[d]
  BY <1>0, <1>1, <1>2 DEF Tables, ChallengeState
<1>7. /\ secret \in Caps
      /\ secret \notin Tokens
      /\ \A o \in Submitters : cap[o] # secret
      /\ issued \subseteq issued'
      /\ secret \in issued'
  BY <1>0, <1>2, PolicyAssumption DEF Caps, Drawn
<1>8. /\ Drawn'
      /\ cap' \in [Submitters -> Caps \cup {NoCap}]
      /\ cap'[s] # NoCap
      /\ \A o \in Submitters : cap[o] # NoCap => cap'[o] # NoCap
  BY <1>0, <1>2, <1>7, DrawnNew, Zenon
<1>9. Tables'
  BY <1>0, <1>2, <1>5, <1>6, <1>8 DEF Tables
<1>10. Enrolled'
  <2>1. ASSUME NEW d \in Codes, challenges'[d].state # "unused"
        PROVE  /\ challenges'[d].submitter \in Submitters
               /\ submitters'[challenges'[d].submitter].status # "absent"
    BY <1>0, <1>5, <1>6, <2>1 DEF Enrolled
  <2>2. ASSUME NEW o \in Submitters, submitters'[o].status \in {"active", "revoked"}
        PROVE  /\ \E d \in Codes : /\ challenges'[d].state = "consumed"
                                    /\ challenges'[d].submitter = o
               /\ cap'[o] # NoCap
    <3>1. CASE o = s
      BY <1>6, <1>8, <3>1
    <3>2. CASE o # s
      <4>1. submitters[o].status \in {"active", "revoked"}
        BY <1>5, <2>2, <3>2
      <4>2. PICK d \in Codes : challenges[d].state = "consumed" /\ challenges[d].submitter = o
        BY <1>0, <4>1 DEF Enrolled
      <4>3. d # c /\ challenges'[d] = challenges[d]
        BY <1>2, <1>6, <4>2
      <4> QED
        BY <1>0, <1>8, <4>1, <4>2, <4>3 DEF Enrolled
    <3> QED
      BY <3>1, <3>2
  <2> QED
    BY <2>1, <2>2 DEF Enrolled
<1>11. TokensOK'
  BY <1>0, <1>2, TokensStay, SameVersion
<1>12. Chained'
  <2>1. \A o \in Submitters :
          /\ submitters'[o].limit = submitters[o].limit
          /\ submitters'[o].status = "absent" => submitters[o].status = "absent"
    BY <1>5
  <2> QED
    BY <1>0, <1>2, <2>1, ChainedStays
<1> QED
  BY <1>8, <1>9, <1>10, <1>11, <1>12 DEF PInv

LEMMA RevokeStep ==
    ASSUME PInv, NEW s \in Submitters, Revoke(s)
    PROVE  PInv'
<1>0. Tables /\ Enrolled /\ Drawn /\ TokensOK /\ Chained
  BY DEF PInv
<1>1. PICK st \in Status : st = "revoked"
  BY DEF Status
<1>2. /\ submitters[s].status = "active"
      /\ Vacant(s, submitters[s].address, st)
      /\ SetStatus(s, st)
      /\ UNCHANGED <<challenges, cap, issued, rules, expired, versions, tokens>>
  BY <1>1 DEF Revoke
<1>3. /\ submitters' \in [Submitters -> Submitter]
      /\ UniqueRows'
      /\ submitters'[s].status = "revoked"
      /\ \A o \in Submitters \ {s} : submitters'[o] = submitters[o]
      /\ \A o \in Submitters : submitters'[o].limit = submitters[o].limit
  BY <1>0, <1>1, <1>2, StatusRows
<1>4. Tables'
  BY <1>0, <1>2, <1>3 DEF Tables
<1>5. \A o \in Submitters :
        submitters'[o].status # submitters[o].status =>
          /\ submitters[o].status \in {"active", "revoked"}
          /\ submitters'[o].status \in {"active", "revoked"}
  BY <1>2, <1>3
<1>6. Enrolled'
  BY <1>0, <1>2, <1>5, EnrolledStays
<1>7. Drawn' /\ TokensOK'
  BY <1>0, <1>2, DrawnStays, TokensStay, SameVersion
<1>8. Chained'
  <2>1. \A o \in Submitters :
          /\ submitters'[o].limit = submitters[o].limit
          /\ submitters'[o].status = "absent" => submitters[o].status = "absent"
    BY <1>3
  <2> QED
    BY <1>0, <1>2, <2>1, ChainedStays
<1> QED
  BY <1>4, <1>6, <1>7, <1>8 DEF PInv

LEMMA RotateStep ==
    ASSUME PInv, NEW s \in Submitters, NEW secret \in Secrets, Rotate(s, secret)
    PROVE  PInv'
<1>0. Tables /\ Enrolled /\ Drawn /\ TokensOK /\ Chained
  BY DEF PInv
<1>1. /\ secret \notin issued
      /\ cap' = [cap EXCEPT ![s] = secret]
      /\ issued' = issued \cup {secret}
      /\ UNCHANGED <<submitters, challenges, rules, expired, versions, tokens>>
  BY DEF Rotate
<1>2. /\ secret \in Caps
      /\ secret \notin Tokens
      /\ \A o \in Submitters : cap[o] # secret
      /\ issued \subseteq issued'
      /\ secret \in issued'
  BY <1>0, <1>1, PolicyAssumption DEF Caps, Drawn
<1>3. /\ Drawn'
      /\ cap' \in [Submitters -> Caps \cup {NoCap}]
      /\ \A o \in Submitters : cap[o] # NoCap => cap'[o] # NoCap
  BY <1>0, <1>1, <1>2, DrawnNew, Zenon
<1>4. Tables'
  BY <1>0, <1>1, <1>3 DEF Tables, UniqueRows
<1>5. Enrolled'
  BY <1>0, <1>1, <1>3, EnrolledStays
<1>6. TokensOK' /\ Chained'
  BY <1>0, <1>1, TokensStay, SameVersion, ChainedStays
<1> QED
  BY <1>3, <1>4, <1>5, <1>6 DEF PInv

-----------------------------------------------------------------------------
(***************************************************************************)
(* Time keeps the invariant                                                *)
(***************************************************************************)
LEMMA ExpiryStep ==
    ASSUME PInv, Expiry \/ UNCHANGED policy
    PROVE  PInv'
<1>0. Tables /\ Enrolled /\ Drawn /\ TokensOK /\ Chained
  BY DEF PInv
<1>1. UNCHANGED <<submitters, cap, issued, rules, versions>>
  BY DEF Expiry, ChallengeExpires, TokenExpires, RuleExpires, policy
<1>2. Version \in Nat /\ Version' = Version /\ Version <= Version'
  BY <1>0, <1>1, SameVersion
<1>3. ASSUME NEW c \in Codes, ChallengeExpires(c) PROVE PInv'
  <2>1. /\ challenges[c].state = "open"
        /\ challenges' = [challenges EXCEPT ![c].state = "expired"]
        /\ UNCHANGED <<expired, tokens>>
    BY <1>3 DEF ChallengeExpires
  <2>2. /\ challenges' \in [Codes -> [state : ChallengeState,
                                      submitter : Submitters \cup {NoSubmitter}]]
        /\ \A d \in Codes : /\ challenges'[d].submitter = challenges[d].submitter
                             /\ \/ challenges'[d].state = challenges[d].state
                                \/ /\ challenges[d].state = "open"
                                   /\ challenges'[d].state = "expired"
    BY <1>0, <2>1 DEF Tables, ChallengeState
  <2>3. Tables'
    BY <1>0, <1>1, <2>1, <2>2 DEF Tables, UniqueRows
  <2>4. Enrolled'
    BY <1>0, <1>1, <2>2, EnrolledStays
  <2>5. Drawn' /\ TokensOK' /\ Chained'
    BY <1>0, <1>1, <1>2, <2>1, DrawnStays, TokensStay, ChainedStays
  <2> QED
    BY <2>3, <2>4, <2>5 DEF PInv
<1>4. ASSUME NEW t \in Tokens, TokenExpires(t) PROVE PInv'
  <2>1. /\ tokens[t].state = "open"
        /\ tokens' = [tokens EXCEPT ![t] = Spent]
        /\ UNCHANGED <<expired, challenges>>
    BY <1>4 DEF TokenExpires
  <2>2. PICK tok : tok = Spent
    OBVIOUS
  <2>3. tok \in Token /\ tok.state = "spent"
    BY <1>2, <2>2, SpentType
  <2>4. tok \in Token'
    BY <1>2, <2>3 DEF Token
  <2>5. TokensOK' /\ tokens'[t] = tok /\ \A o \in Tokens \ {t} : tokens'[o] = tokens[o]
    BY <1>0, <1>2, <2>1, <2>2, <2>3, <2>4, TokenWritten, Zenon
  <2>6. Tables' /\ Enrolled'
    BY <1>0, <1>1, <2>1, EnrolledStays DEF Tables, UniqueRows
  <2>7. Drawn'
    BY <1>0, <1>1, <2>1, <2>5, DrawnStays
  <2>8. Chained'
    <3>1. \A o \in Tokens : tokens'[o].state = "open" => tokens'[o] = tokens[o]
      BY <2>3, <2>5
    <3> QED
      BY <1>0, <1>1, <3>1, ChainedStays
  <2> QED
    BY <2>5, <2>6, <2>7, <2>8 DEF PInv
<1>5. ASSUME NEW r \in Rules, RuleExpires(r) PROVE PInv'
  <2>1. Shape[r].expires /\ expired' = expired \cup {r} /\ UNCHANGED <<challenges, tokens>>
    BY <1>5 DEF RuleExpires
  <2>2. Tables'
    BY <1>0, <1>1, <2>1 DEF Tables, UniqueRows
  <2>3. Enrolled' /\ Drawn' /\ TokensOK' /\ Chained'
    BY <1>0, <1>1, <1>2, <2>1, EnrolledStays, DrawnStays, TokensStay, ChainedStays
  <2> QED
    BY <2>2, <2>3 DEF PInv
<1>6. CASE UNCHANGED policy
  <2>1. UNCHANGED <<challenges, expired, tokens>>
    BY <1>6 DEF policy
  <2>2. Tables'
    BY <1>0, <1>1, <2>1 DEF Tables, UniqueRows
  <2>3. Enrolled' /\ Drawn' /\ TokensOK' /\ Chained'
    BY <1>0, <1>1, <1>2, <2>1, EnrolledStays, DrawnStays, TokensStay, ChainedStays
  <2> QED
    BY <2>2, <2>3 DEF PInv
<1> QED
  BY <1>3, <1>4, <1>5, <1>6 DEF Expiry

-----------------------------------------------------------------------------
(***************************************************************************)
(* The control API keeps the invariant                                     *)
(***************************************************************************)
LEMMA PreviewStep ==
    ASSUME PInv, NEW t \in Tokens, NEW command \in Command, NEW key \in Keys,
           Preview(t, command, key)
    PROVE  PInv'
<1>0. Tables /\ Enrolled /\ Drawn /\ TokensOK /\ Chained
  BY DEF PInv
<1>1. /\ UNCHANGED <<submitters, challenges, cap, issued, rules, expired, versions>>
      /\ tokens[t].state = "absent"
  BY DEF Preview
<1>2. Version \in Nat /\ Version' = Version /\ Version <= Version'
  BY <1>0, <1>1, SameVersion
<1>3. PICK subs \in [Submitters -> Submitter], caps \in [Submitters -> Caps \cup {NoCap}],
           rls \in {rules} :
        subs = submitters /\ caps = cap /\ rls = rules
  BY <1>0 DEF Tables
<1>4. PICK p : p = EffectivePolicy(subs, caps, rls)
  OBVIOUS
<1>5. p = Effective
  BY <1>3, <1>4 DEF Effective
<1>6. /\ p \in EffectivePolicies
      /\ \A sh \in Shapes : p.rules[sh] \in 0 .. Cardinality(Rules)
      /\ Cardinality(Rules) \in Nat
  BY <1>4, EffectiveType
<1>7. PICK q : q = ProjectedPolicy(p, command, t)
  OBVIOUS
<1>8. q \in EffectivePolicies
  BY <1>6, <1>7, ProjectedType
<1>9. Versioned(p) = VersionedOf(submitters, rules)
  <2>1. Versioned(EffectivePolicy(subs, caps, rls)) = VersionedOf(subs, rls)
    BY <1>0, VersionedEffective DEF Tables
  <2> QED
    BY <1>3, <1>4, <2>1
<1>10. PICK v : v = Version
  OBVIOUS
<1>11. PICK tok : tok = [state |-> "open", command |-> command, key |-> key,
                         version |-> v, before |-> p, after |-> q]
  BY Zenon
<1>12. /\ tok.state = "open"
       /\ tok.before = p
       /\ OpenToken(tok)
  BY <1>6, <1>8, <1>11 DEF OpenToken
<1>13. tok \in Token'
  <2>1. v \in 0 .. Version'
    BY <1>2, <1>10
  <2>2. /\ "open" \in {"absent", "open", "spent"}
        /\ command \in Command \cup {NoCommand}
        /\ key \in Keys \cup {"none"}
        /\ p \in EffectivePolicies \cup {NoCommand}
        /\ q \in EffectivePolicies \cup {NoCommand}
    BY <1>6, <1>8
  <2> QED
    BY <1>11, <2>1, <2>2 DEF Token
<1>14. tokens' = [tokens EXCEPT ![t] = tok]
  BY <1>5, <1>7, <1>10, <1>11 DEF Preview
<1>15. TokensOK' /\ tokens'[t] = tok /\ \A o \in Tokens \ {t} : tokens'[o] = tokens[o]
  BY <1>0, <1>2, <1>12, <1>13, <1>14, TokenWritten, Zenon
<1>16. Tables' /\ Enrolled'
  BY <1>0, <1>1, EnrolledStays, Zenon DEF Tables, UniqueRows
<1>17. Drawn'
  <2>1. \A o \in Tokens : tokens[o].state = "spent" => tokens'[o].state = "spent"
    BY <1>1, <1>15, Zenon
  <2> QED
    BY <1>0, <1>1, <2>1, DrawnStays, Zenon
<1>18. Chained'
  <2>1. \A o \in Tokens : tokens'[o].state = "open" =>
          \/ tokens'[o] = tokens[o]
          \/ Versioned(tokens'[o].before) = VersionedOf(submitters, rules)
    BY <1>9, <1>12, <1>15, Zenon
  <2> QED
    BY <1>0, <1>1, <2>1, ChainedStays, Zenon
<1> QED
  BY <1>15, <1>16, <1>17, <1>18 DEF PInv

\* The row that a commit appends.
AppendsRow(row, key, before, after) ==
    /\ versions' = Append(versions, row)
    /\ row.key = key
    /\ row.before = before
    /\ row.after = after
    /\ row.policy = EffectivePolicy(submitters', cap', rules')
    /\ Versioned(row.policy) = VersionedOf(submitters, rules)'
    /\ row.enabled = Enabled'

LEMMA CommittedRow ==
    ASSUME Tables, UNCHANGED expired,
           NEW key \in Keys \cup {"none", "bootstrap-import"},
           NEW before \in EffectivePolicies \cup {NoCommand},
           NEW after \in EffectivePolicies \cup {NoCommand},
           submitters' \in [Submitters -> Submitter],
           cap' \in [Submitters -> Caps \cup {NoCap}],
           versions' = Committed(key, before, after)
    PROVE  \E row \in VersionRow : AppendsRow(row, key, before, after)
<1>1. PICK subs \in [Submitters -> Submitter], caps \in [Submitters -> Caps \cup {NoCap}],
           rls \in {rules'} :
        subs = submitters' /\ caps = cap' /\ rls = rules'
  OBVIOUS
<1>2. PICK p : p = EffectivePolicy(subs, caps, rls)
  OBVIOUS
<1>3. p \in EffectivePolicies
  BY <1>2, EffectiveType
<1>4. p = EffectivePolicy(submitters', cap', rules')
  BY <1>1, <1>2
<1>5. Versioned(p) = VersionedOf(subs, rls)
  BY <1>2, VersionedEffective DEF Tables
<1>6. VersionedOf(subs, rls) = VersionedOf(submitters, rules)'
  BY <1>1, Zenon DEF VersionedOf
<1>7. PICK en : en = Enabled' /\ en \in SUBSET Rules
  BY Zenon DEF Enabled
<1>8. PICK row : row = [key |-> key, before |-> before, after |-> after,
                        policy |-> p, enabled |-> en]
  BY Zenon
<1>9. /\ row \in VersionRow
      /\ row.key = key
      /\ row.before = before
      /\ row.after = after
      /\ row.policy = p
      /\ row.enabled = en
  BY <1>3, <1>7, <1>8 DEF VersionRow
<1>10. versions' = Append(versions, row)
  BY <1>4, <1>7, <1>8 DEF Committed, Enabled
<1> QED
  BY <1>4, <1>5, <1>6, <1>7, <1>9, <1>10, Zenon DEF AppendsRow

LEMMA ConfirmStep ==
    ASSUME PInv, NEW t \in Tokens, Confirm(t)
    PROVE  PInv'
<1>0. Tables /\ Enrolled /\ Drawn /\ TokensOK /\ Chained
  BY DEF PInv
<1>1. /\ tokens[t].state = "open"
      /\ tokens[t].version = Version
      /\ EffectivePolicy(submitters', cap', rules') = tokens[t].after
      /\ tokens' = [tokens EXCEPT ![t] = Spent]
      /\ UNCHANGED <<challenges, issued, expired>>
  BY Zenon DEF Confirm
<1>2. PICK old \in Token : old = tokens[t] /\ OpenToken(old)
  BY <1>0, <1>1 DEF TokensOK
<1>3. PICK command \in Command : command = old.command
  BY <1>2 DEF OpenToken
<1>4. Apply(command, t) /\ versions' = Committed(old.key, old.before, old.after)
  BY <1>2, <1>3, Zenon DEF Confirm
<1>5. /\ submitters' \in [Submitters -> Submitter]
      /\ UniqueRows'
      /\ \A s \in Submitters :
           /\ submitters'[s].status # submitters[s].status =>
                /\ submitters[s].status \in {"active", "revoked"}
                /\ submitters'[s].status \in {"active", "revoked"}
           /\ submitters[s].status = "absent" => submitters'[s].limit = submitters[s].limit
      /\ \/ UNCHANGED cap
         \/ \E s \in Submitters : cap[s] # NoCap /\ cap' = [cap EXCEPT ![s] = t]
      /\ rules' \in [Rules -> RuleState]
  BY <1>0, <1>4, ApplyRows, Zenon
<1>6. Version \in Nat
  BY <1>0 DEF Tables, Version
<1>7. PICK tok : tok = Spent
  OBVIOUS
<1>8. tok \in Token /\ tok.state = "spent"
  BY <1>6, <1>7, SpentType
<1>9. tokens'[t].state = "spent" /\ \A o \in Tokens \ {t} : tokens'[o] = tokens[o]
  BY <1>0, <1>1, <1>7, <1>8 DEF TokensOK
<1>10. \A o \in Tokens : tokens[o].state = "spent" => tokens'[o].state = "spent"
  BY <1>9
<1>11. /\ Drawn'
       /\ cap' \in [Submitters -> Caps \cup {NoCap}]
       /\ \A o \in Submitters : cap[o] # NoCap => cap'[o] # NoCap
  <2>1. CASE UNCHANGED cap
    BY <1>0, <1>1, <1>10, <2>1, DrawnStays DEF Tables
  <2>2. ASSUME NEW s \in Submitters, cap' = [cap EXCEPT ![s] = t]
        PROVE  /\ Drawn'
               /\ cap' \in [Submitters -> Caps \cup {NoCap}]
               /\ \A o \in Submitters : cap[o] # NoCap => cap'[o] # NoCap
    <3>1. t \in Caps /\ t \notin Secrets /\ \A o \in Submitters : cap[o] # t
      BY <1>0, <1>1, PolicyAssumption DEF Caps, Drawn
    <3> QED
      BY <1>0, <1>1, <1>9, <1>10, <2>2, <3>1, DrawnNew, ZenonT(30)
  <2> QED
    BY <1>5, <2>1, <2>2
<1>12. PICK row \in VersionRow :
          /\ versions' = Append(versions, row)
          /\ row.before = old.before
          /\ row.after = old.after
          /\ row.policy = EffectivePolicy(submitters', cap', rules')
          /\ Versioned(row.policy) = VersionedOf(submitters, rules)'
          /\ row.enabled = Enabled'
  <2>1. PICK key \in Keys \cup {"none", "bootstrap-import"},
             before \in EffectivePolicies \cup {NoCommand},
             after \in EffectivePolicies \cup {NoCommand} :
          key = old.key /\ before = old.before /\ after = old.after
    BY <1>2 DEF Token
  <2>2. versions' = Committed(key, before, after)
    BY <1>4, <2>1
  <2>3. submitters' \in [Submitters -> Submitter] /\ UNCHANGED expired
    BY <1>1, <1>5, Zenon
  <2>4. PICK row \in VersionRow : AppendsRow(row, key, before, after)
    <3>1. /\ key \in Keys \cup {"none", "bootstrap-import"}
          /\ before \in EffectivePolicies \cup {NoCommand}
          /\ after \in EffectivePolicies \cup {NoCommand}
      BY <2>1
    <3>2. Tables /\ cap' \in [Submitters -> Caps \cup {NoCap}]
      BY <1>0, <1>11
    <3> QED
      BY <2>2, <2>3, <3>1, <3>2, CommittedRow, Zenon
  <2> QED
    BY <2>1, <2>4, Zenon DEF AppendsRow
<1>13. Chained' /\ versions' \in Seq(VersionRow) /\ Version' = Version + 1
  <2>1. row.after = row.policy /\ Versioned(row.before) = VersionedOf(submitters, rules)
    BY <1>0, <1>1, <1>2, <1>12, ZenonT(30) DEF Chained
  <2>2. \A s \in Submitters :
          submitters'[s].status = "absent" => submitters'[s].limit = DefaultLimit
    BY <1>0, <1>5 DEF Chained
  <2>3. \A o \in Tokens : tokens'[o].state = "open" => tokens'[o] = tokens[o]
    BY <1>9
  <2> QED
    BY <1>0, <1>12, <2>1, <2>2, <2>3, ChainedCommit, Zenon
<1>14. TokensOK'
  <2>1. Version <= Version' /\ Version' \in Nat
    BY <1>6, <1>13
  <2>2. tok \in Token'
    BY <1>6, <1>8, <1>13 DEF Token
  <2> QED
    BY <1>0, <1>1, <1>6, <1>7, <1>8, <2>1, <2>2, TokenWritten, Zenon
<1>15. Tables'
  BY <1>0, <1>1, <1>5, <1>11, <1>13 DEF Tables
<1>16. Enrolled'
  BY <1>0, <1>1, <1>5, <1>11, EnrolledStays, Zenon
<1> QED
  BY <1>11, <1>13, <1>14, <1>15, <1>16 DEF PInv

LEMMA ImportStep ==
    ASSUME PInv, BootstrapImport
    PROVE  PInv'
<1>0. Tables /\ Enrolled /\ Drawn /\ TokensOK /\ Chained
  BY DEF PInv
<1>1. /\ rules' = [r \in Rules |-> IF r \in Imported THEN "enabled" ELSE rules[r]]
      /\ UNCHANGED <<submitters, challenges, cap, issued, expired, tokens>>
      /\ Version = 0
  BY DEF BootstrapImport
<1>2. PICK key \in Keys \cup {"none", "bootstrap-import"},
           none \in EffectivePolicies \cup {NoCommand} :
        key = "bootstrap-import" /\ none = NoCommand
  OBVIOUS
<1>3. versions' = Committed(key, none, none)
  BY <1>2 DEF BootstrapImport
<1>4. submitters' \in [Submitters -> Submitter] /\ cap' \in [Submitters -> Caps \cup {NoCap}]
  BY <1>0, <1>1 DEF Tables
<1>5. PICK row \in VersionRow : AppendsRow(row, key, none, none)
  <2>1. UNCHANGED expired
    BY <1>1
  <2> QED
    BY <1>0, <1>2, <1>3, <1>4, <2>1, CommittedRow
<1>6. Chained' /\ versions' \in Seq(VersionRow) /\ Version' = Version + 1
  <2>1. \A s \in Submitters :
          submitters'[s].status = "absent" => submitters'[s].limit = DefaultLimit
    BY <1>0, <1>1, Zenon DEF Chained
  <2>2. \A o \in Tokens : tokens'[o].state = "open" => tokens'[o] = tokens[o]
    BY <1>1
  <2> QED
    BY <1>0, <1>2, <1>5, <2>1, <2>2, ChainedCommit, Zenon DEF AppendsRow
<1>7. TokensOK'
  BY <1>0, <1>1, <1>6, TokensStay
<1>8. Tables'
  BY <1>0, <1>1, <1>6 DEF Tables, UniqueRows, RuleState
<1>9. Enrolled' /\ Drawn'
  BY <1>0, <1>1, EnrolledStays, DrawnStays
<1> QED
  BY <1>6, <1>7, <1>8, <1>9 DEF PInv

-----------------------------------------------------------------------------
(***************************************************************************)
(* The invariant holds                                                     *)
(***************************************************************************)
LEMMA InitPInv == PolicyInit => PInv
<1> SUFFICES ASSUME PolicyInit PROVE PInv
  OBVIOUS
<1>1. PICK row \in Submitter : row = [status |-> "absent", address |-> NoAddress,
                                     limit |-> DefaultLimit]
  BY PolicyAssumption, Zenon DEF Submitter, Status
<1>2. row.status = "absent" /\ row.limit = DefaultLimit
  BY <1>1
<1>3. submitters \in [Submitters -> Submitter] /\ \A s \in Submitters : submitters[s] = row
  BY <1>1 DEF PolicyInit
<1>4. PICK ch \in [state : ChallengeState, submitter : Submitters \cup {NoSubmitter}] :
        ch = [state |-> "unused", submitter |-> NoSubmitter]
  BY Zenon DEF ChallengeState
<1>5. /\ challenges \in [Codes -> [state : ChallengeState,
                                   submitter : Submitters \cup {NoSubmitter}]]
      /\ \A c \in Codes : challenges[c].state = "unused"
  BY <1>4 DEF PolicyInit
<1>6. /\ cap \in [Submitters -> Caps \cup {NoCap}]
      /\ \A s \in Submitters : cap[s] = NoCap
      /\ issued = {}
      /\ expired = {}
      /\ rules \in [Rules -> RuleState]
      /\ Enabled = {}
  BY DEF PolicyInit, RuleState, Enabled
<1>7. versions \in Seq(VersionRow) /\ Version = 0
  BY DEF PolicyInit, Version
<1>8. NoToken \in Token /\ NoToken.state = "absent"
  <2>1. PICK v \in 0 .. Version : v = 0
    BY <1>7
  <2>2. NoToken = [state |-> "absent", command |-> NoCommand, key |-> "none",
                   version |-> v, before |-> NoCommand, after |-> NoCommand]
    BY <2>1 DEF NoToken
  <2> QED
    BY <2>2 DEF Token
<1>9. tokens \in [Tokens -> Token] /\ \A t \in Tokens : tokens[t].state = "absent"
  BY <1>8 DEF PolicyInit
<1>10. Tables
  BY <1>2, <1>3, <1>5, <1>6, <1>7 DEF Tables, UniqueRows
<1>11. Enrolled
  BY <1>2, <1>3, <1>5 DEF Enrolled
<1>12. Drawn /\ TokensOK
  BY <1>6, <1>9, PolicyAssumption DEF Drawn, TokensOK
<1>13. VersionsDigestTheirPolicy /\ AuditChain
  <2>1. 1 .. Version = {} /\ 2 .. Version = {}
    BY <1>7
  <2> QED
    BY <2>1, Zenon DEF VersionsDigestTheirPolicy, AuditChain
<1>14. Chained
  <2>1. ~(Version > 0)
    BY <1>7
  <2> QED
    BY <1>2, <1>3, <1>6, <1>9, <1>13, <2>1, Zenon DEF Chained
<1> QED
  BY <1>10, <1>11, <1>12, <1>14 DEF PInv

LEMMA StepPInv == PInv /\ [PolicyNext]_policy => PInv'
<1> SUFFICES ASSUME PInv, [PolicyNext]_policy PROVE PInv'
  OBVIOUS
<1>1. CASE Enrollment
  BY <1>1, ChallengeStep, ActivateStep, RevokeStep, RotateStep DEF Enrollment
<1>2. CASE Control
  BY <1>2, PreviewStep, ConfirmStep, ImportStep DEF Control
<1>3. CASE Expiry \/ UNCHANGED policy
  BY <1>3, ExpiryStep
<1> QED
  BY <1>1, <1>2, <1>3 DEF PolicyNext

LEMMA PolicyInvariance == PolicySpec => []PInv
BY InitPInv, StepPInv, PTL DEF PolicySpec

LEMMA PolicyTyped == PInv => PolicyTypeOK
<1> SUFFICES ASSUME PInv PROVE PolicyTypeOK
  OBVIOUS
<1>1. \A t \in Tokens : tokens[t] \in Token
  BY DEF PInv, TokensOK
<1> QED
  BY <1>1 DEF PInv, Tables, UniqueRows, PolicyTypeOK, ChallengeState, RuleState

\* The tables hold rows of their types, with at most one row of an address in
\* each status, and no token is ahead of the policy.
THEOREM PolicyTypeCorrect == PolicySpec => []PolicyTypeOK
BY PolicyTyped, PolicyInvariance, PTL

\* For any number of submitters, codes and tokens, and whatever order
\* challenges, activations, revocations, rotations and control commands come
\* in: an active submitter returned a code and has a capability of its own.
THEOREM ActiveAreVerified == PolicySpec => []OnlyVerifiedMailboxesAreActive
<1>1. PInv => OnlyVerifiedMailboxesAreActive
  <2> SUFFICES ASSUME PInv, NEW s \in Submitters, submitters[s].status = "active"
               PROVE  /\ \E c \in Codes : challenges[c] = [state |-> "consumed", submitter |-> s]
                      /\ cap[s] # NoCap
                      /\ \A o \in Submitters \ {s} : cap[o] # cap[s]
    BY Zenon DEF OnlyVerifiedMailboxesAreActive
  <2>1. PICK c \in Codes : challenges[c].state = "consumed" /\ challenges[c].submitter = s
    BY DEF PInv, Enrolled
  <2>2. challenges[c] \in [state : ChallengeState, submitter : Submitters \cup {NoSubmitter}]
    BY DEF PInv, Tables
  <2>3. challenges[c] = [state |-> "consumed", submitter |-> s]
    BY <2>1, <2>2
  <2>4. cap[s] # NoCap /\ \A o \in Submitters \ {s} : cap[o] # cap[s]
    BY DEF PInv, Enrolled, Drawn
  <2> QED
    BY <2>3, <2>4
<1> QED
  BY <1>1, PolicyInvariance, PTL

\* For any number of operators, commands and enrollments between previews and
\* confirmations, a version's digest is that of the policy it put in force
\* (control.go Confirm).
THEOREM DigestsAreTrue == PolicySpec => []VersionsDigestTheirPolicy
<1>1. PInv => VersionsDigestTheirPolicy
  BY DEF PInv, Chained
<1> QED
  BY <1>1, PolicyInvariance, PTL

\* The versioned policy a command was previewed against is that of the version
\* before it, whatever was previewed and confirmed between (control.go Confirm).
THEOREM AuditEventsChain == PolicySpec => []AuditChain
<1>1. PInv => AuditChain
  BY DEF PInv, Chained
<1> QED
  BY <1>1, PolicyInvariance, PTL

-----------------------------------------------------------------------------
(***************************************************************************)
(* The policy implements the audited register                              *)
(***************************************************************************)
\* What enrollment and time leave alone.
LEMMA RegisterStays ==
    ASSUME PInv, Enrollment \/ Expiry \/ UNCHANGED policy
    PROVE  VersionedOf(submitters, rules)' = VersionedOf(submitters, rules) /\ UNCHANGED versions
<1>1. UNCHANGED <<rules, versions>>
  BY DEF Enrollment, Challenge, Activate, Revoke, Rotate, Expiry, ChallengeExpires, TokenExpires,
         RuleExpires, policy
<1>2. \A s \in Submitters : submitters'[s].limit = submitters[s].limit
  <2>1. submitters \in [Submitters -> Submitter]
    BY DEF PInv, Tables
  <2>2. \A s \in Submitters : submitters[s].status = "absent" => submitters[s].limit = DefaultLimit
    BY DEF PInv, Chained
  <2>3. CASE UNCHANGED submitters
    BY <2>3
  <2>4. ASSUME NEW s \in Submitters, NEW st, SetStatus(s, st)
        PROVE  \A o \in Submitters : submitters'[o].limit = submitters[o].limit
    BY <2>1, <2>4 DEF SetStatus, Submitter
  <2>5. ASSUME NEW s \in Submitters, NEW a \in Addresses, NEW c \in Codes, Challenge(s, a, c)
        PROVE  \A o \in Submitters : submitters'[o].limit = submitters[o].limit
    BY <2>1, <2>2, <2>5 DEF Challenge
  <2>6. ASSUME NEW c \in Codes, NEW secret \in Secrets, Activate(c, secret)
        PROVE  \A o \in Submitters : submitters'[o].limit = submitters[o].limit
    <3>1. challenges[c].submitter \in Submitters
      BY <2>6 DEF PInv, Enrolled, Activate
    <3> QED
      BY <2>4, <2>6, <3>1 DEF Activate
  <2>7. ASSUME NEW s \in Submitters, Revoke(s)
        PROVE  \A o \in Submitters : submitters'[o].limit = submitters[o].limit
    BY <2>4, <2>7 DEF Revoke
  <2>8. CASE UNCHANGED policy
    BY <2>3, <2>8 DEF policy
  <2>9. CASE Expiry
    BY <2>3, <2>9 DEF Expiry, ChallengeExpires, TokenExpires, RuleExpires
  <2>10. CASE Enrollment
    <3>1. ASSUME NEW s \in Submitters, NEW secret \in Secrets, Rotate(s, secret)
          PROVE  UNCHANGED submitters
      BY <3>1 DEF Rotate
    <3> QED
      BY <2>3, <2>5, <2>6, <2>7, <2>10, <3>1 DEF Enrollment
  <2> QED
    BY <2>8, <2>9, <2>10
<1> QED
  BY <1>1, <1>2, ZenonT(30) DEF VersionedOf

\* A row at the end of the table.
LEMMA LogGrows ==
    ASSUME NEW row, versions \in Seq(VersionRow), row \in VersionRow, versions' = Append(versions, row)
    PROVE  Audit!Grows /\ versions'[Len(versions')] = row
<1>1. Len(versions') = Len(versions) + 1 /\ versions'[Len(versions) + 1] = row
  OBVIOUS
<1> QED
  BY <1>1 DEF Audit!Grows

LEMMA ConfirmChanges ==
    ASSUME PInv, PInv', NEW t \in Tokens, Confirm(t)
    PROVE  \E key \in Keys : Audit!Change(key)
<1>1. /\ tokens[t].state = "open"
      /\ tokens[t].version = Version
      /\ \A v \in 1 .. Version : versions[v].key # tokens[t].key
      /\ EffectivePolicy(submitters', cap', rules') = tokens[t].after
      /\ versions' = Committed(tokens[t].key, tokens[t].before, tokens[t].after)
      /\ UNCHANGED expired
  BY DEF Confirm
<1>2. PICK key \in Keys, before \in EffectivePolicies, after \in EffectivePolicies :
        key = tokens[t].key /\ before = tokens[t].before /\ after = tokens[t].after
  BY <1>1, Zenon DEF PInv, TokensOK, OpenToken
<1>3. PICK row \in VersionRow : AppendsRow(row, key, before, after)
  <2>1. /\ Tables
        /\ submitters' \in [Submitters -> Submitter]
        /\ cap' \in [Submitters -> Caps \cup {NoCap}]
    BY DEF PInv, Tables
  <2>2. versions' = Committed(key, before, after)
    BY <1>1, <1>2
  <2> QED
    BY <1>1, <2>1, <2>2, CommittedRow, Zenon
<1>4. Audit!Grows /\ versions'[Len(versions')] = row
  BY <1>3, LogGrows, Zenon DEF AppendsRow, PInv, Tables
<1>5. Versioned(row.before) = VersionedOf(submitters, rules)
  <2>1. Versioned(before) = VersionedOf(submitters, rules)
    BY <1>1, <1>2, Zenon DEF PInv, Chained
  <2> QED
    BY <1>3, <2>1 DEF AppendsRow
<1>6. Versioned(row.after) = VersionedOf(submitters, rules)'
  <2>1. row.after = row.policy
    BY <1>1, <1>2, <1>3, Zenon DEF AppendsRow
  <2> QED
    BY <1>3, <2>1, ZenonT(30) DEF AppendsRow
<1>7. row.key = key /\ \A v \in 1 .. Len(versions) : versions[v].key # key
  BY <1>1, <1>2, <1>3, ZenonT(30) DEF AppendsRow, Version
<1>8. Audit!Change(key)
  BY <1>4, <1>5, <1>6, <1>7 DEF Audit!Change
<1> QED
  BY <1>8

LEMMA ImportAppends ==
    ASSUME PInv, PInv', BootstrapImport
    PROVE  Audit!Import
<1>1. PICK key \in Keys \cup {"none", "bootstrap-import"},
           none \in EffectivePolicies \cup {NoCommand} :
        key = "bootstrap-import" /\ none = NoCommand
  OBVIOUS
<1>2. /\ versions' = Committed(key, none, none)
      /\ UNCHANGED expired
      /\ Version = 0
  BY <1>1 DEF BootstrapImport
<1>3. PICK row \in VersionRow : AppendsRow(row, key, none, none)
  <2>1. /\ Tables
        /\ submitters' \in [Submitters -> Submitter]
        /\ cap' \in [Submitters -> Caps \cup {NoCap}]
    BY DEF PInv, Tables
  <2> QED
    BY <1>2, <2>1, CommittedRow
<1>4. Audit!Grows /\ versions'[Len(versions')] = row
  BY <1>3, LogGrows, Zenon DEF AppendsRow, PInv, Tables
<1>5. versions = <<>> /\ Len(versions') = 1
  <2>1. versions \in Seq(VersionRow)
    BY DEF PInv, Tables
  <2>2. Len(versions) = 0
    BY <1>2 DEF Version
  <2>3. versions = <<>>
    BY <2>1, <2>2
  <2>4. Len(versions') = Len(versions) + 1
    BY <1>4, Zenon DEF Audit!Grows
  <2> QED
    BY <2>2, <2>3, <2>4
<1>6. versions'[1].before = NoCommand
  <2>1. versions'[1] = row
    BY <1>4, <1>5, Zenon
  <2>2. row.before = none
    BY <1>3, Zenon DEF AppendsRow
  <2> QED
    BY <1>1, <2>1, <2>2, Zenon
<1> QED
  BY <1>4, <1>5, <1>6, Zenon DEF Audit!Import

LEMMA StepAudit == PInv /\ PInv' /\ [PolicyNext]_policy => [Audit!AuditNext]_(Audit!audited)
<1> SUFFICES ASSUME PInv, PInv', [PolicyNext]_policy
             PROVE  Audit!AuditNext \/ UNCHANGED Audit!audited
  OBVIOUS
<1>1. CASE Enrollment \/ Expiry \/ UNCHANGED policy
  BY <1>1, RegisterStays DEF Audit!audited
<1>2. ASSUME NEW t \in Tokens, NEW command \in Command, NEW key \in Keys, Preview(t, command, key)
      PROVE  UNCHANGED Audit!audited
  <2>1. UNCHANGED <<submitters, rules, versions>>
    BY <1>2 DEF Preview
  <2>2. VersionedOf(submitters, rules)' = VersionedOf(submitters, rules)
    BY <2>1 DEF VersionedOf
  <2> QED
    BY <2>1, <2>2 DEF Audit!audited
<1>3. ASSUME NEW t \in Tokens, Confirm(t) PROVE Audit!AuditNext
  BY <1>3, ConfirmChanges DEF Audit!AuditNext
<1>4. CASE BootstrapImport
  BY <1>4, ImportAppends DEF Audit!AuditNext
<1> QED
  BY <1>1, <1>2, <1>3, <1>4 DEF PolicyNext, Control

\* No quota and no lasting rule changes behind the audit, for any number of
\* submitters, operators, tokens and rules: only a confirmed command or the
\* first import changes them, once per command, and the audit event shows
\* what they were and what they became (control.go Confirm, apply).
THEOREM PolicyImplementsAudit == PolicySpec => ImplementsAudit
<1>1. PolicyInit => Audit!AuditInit
  BY DEF PolicyInit, Audit!AuditInit
<1>2. PInv /\ PInv' /\ [PolicyNext]_policy => [Audit!AuditNext]_(Audit!audited)
  BY StepAudit
<1> QED
  BY <1>1, <1>2, PolicyInvariance, PTL DEF PolicySpec, ImplementsAudit, Audit!AuditSpec

-----------------------------------------------------------------------------
(***************************************************************************)
(* Revocations                                                             *)
(***************************************************************************)
\* Neither enrollment nor a preview, an import or the time reopens a revoked row.
LEMMA RevokedStays ==
    ASSUME PInv, NEW s \in Submitters, submitters[s].status = "revoked",
           \/ Enrollment \/ Expiry \/ UNCHANGED policy \/ BootstrapImport
           \/ \E t \in Tokens, command \in Command, key \in Keys : Preview(t, command, key)
    PROVE  submitters'[s].status = "revoked"
<1>1. submitters \in [Submitters -> Submitter]
  BY DEF PInv, Tables
<1>2. CASE UNCHANGED submitters
  BY <1>2
<1>3. ASSUME NEW o \in Submitters, NEW a \in Addresses, NEW c \in Codes, Challenge(o, a, c)
      PROVE  submitters'[s].status = "revoked"
  BY <1>1, <1>3 DEF Challenge
<1>4. ASSUME NEW c \in Codes, NEW secret \in Secrets, Activate(c, secret)
      PROVE  submitters'[s].status = "revoked"
  <2>1. PICK o \in Submitters : o = challenges[c].submitter
    BY <1>4 DEF PInv, Enrolled, Activate
  <2>2. SetStatus(o, IF submitters[o].status = "pending" THEN "active" ELSE submitters[o].status)
    BY <1>4, <2>1 DEF Activate
  <2> QED
    BY <1>1, <2>2 DEF SetStatus
<1>5. ASSUME NEW o \in Submitters, Revoke(o) PROVE submitters'[s].status = "revoked"
  BY <1>1, <1>5 DEF Revoke, SetStatus
<1>6. ASSUME NEW o \in Submitters, NEW secret \in Secrets, Rotate(o, secret)
      PROVE  UNCHANGED submitters
  BY <1>6 DEF Rotate
<1>7. CASE Enrollment
  BY <1>2, <1>3, <1>4, <1>5, <1>6, <1>7, Zenon DEF Enrollment
<1>8. CASE Expiry \/ UNCHANGED policy \/ BootstrapImport
  BY <1>2, <1>8
  DEF Expiry, ChallengeExpires, TokenExpires, RuleExpires, policy, BootstrapImport
<1>9. ASSUME NEW t \in Tokens, NEW command \in Command, NEW key \in Keys, Preview(t, command, key)
      PROVE  submitters'[s].status = "revoked"
  BY <1>2, <1>9 DEF Preview
<1> QED
  BY <1>7, <1>8, <1>9, Zenon

\* The effective policy shows the status of every submitter's row.
LEMMA EffectiveStatus ==
    ASSUME NEW subs, NEW caps, NEW rls, NEW s \in Submitters
    PROVE  EffectivePolicy(subs, caps, rls).submitters[s].status = subs[s].status
<1>1. PICK p : p = EffectivePolicy(subs, caps, rls)
  OBVIOUS
<1>2. p.submitters[s].status = subs[s].status
  BY <1>1 DEF EffectivePolicy
<1> QED
  BY <1>1, <1>2

\* A confirmed command that reopens a revoked row is one that showed it active.
LEMMA ConfirmReopens ==
    ASSUME PInv, PInv', NEW t \in Tokens, Confirm(t),
           NEW s \in Submitters, submitters[s].status = "revoked",
           submitters'[s].status # "revoked"
    PROVE  /\ submitters'[s].status = "active"
           /\ Version' = Version + 1
           /\ versions'[Version + 1].after.submitters[s].status = "active"
<1>1. /\ tokens[t].state = "open"
      /\ Apply(tokens[t].command, t)
      /\ EffectivePolicy(submitters', cap', rules') = tokens[t].after
      /\ versions' = Committed(tokens[t].key, tokens[t].before, tokens[t].after)
      /\ UNCHANGED expired
  BY Zenon DEF Confirm
<1>2. PICK command \in Command, key \in Keys, before \in EffectivePolicies,
           after \in EffectivePolicies :
        /\ command = tokens[t].command /\ key = tokens[t].key
        /\ before = tokens[t].before /\ after = tokens[t].after
  BY <1>1, Zenon DEF PInv, TokensOK, OpenToken
<1>3. submitters'[s].status = "active"
  <2>1. Tables /\ Apply(command, t)
    BY <1>1, <1>2, Zenon DEF PInv
  <2>2. submitters'[s].status \in {"active", "revoked"}
    BY <2>1, ApplyRows, Zenon
  <2> QED
    BY <2>2
<1>4. PICK row \in VersionRow : AppendsRow(row, key, before, after)
  <2>1. /\ Tables
        /\ submitters' \in [Submitters -> Submitter]
        /\ cap' \in [Submitters -> Caps \cup {NoCap}]
    BY DEF PInv, Tables
  <2>2. versions' = Committed(key, before, after)
    BY <1>1, <1>2
  <2> QED
    BY <1>1, <2>1, <2>2, CommittedRow, ZenonT(30)
<1>5. Version' = Version + 1 /\ versions'[Version + 1] = row
  <2>1. versions \in Seq(VersionRow) /\ versions' = Append(versions, row)
    BY <1>4, Zenon DEF AppendsRow, PInv, Tables
  <2>2. Len(versions') = Len(versions) + 1 /\ versions'[Len(versions) + 1] = row
    BY <2>1
  <2> QED
    BY <2>2, Zenon DEF Version
<1>6. row.after.submitters[s].status = submitters'[s].status
  <2>1. row.after = EffectivePolicy(submitters', cap', rules')
    BY <1>1, <1>2, <1>4, ZenonT(30) DEF AppendsRow
  <2>2. EffectivePolicy(submitters', cap', rules').submitters[s].status
          = submitters'[s].status
    BY EffectiveStatus
  <2> QED
    BY <2>1, <2>2, Zenon
<1> QED
  BY <1>3, <1>5, <1>6, Zenon

\* A revocation lasts until a version of the policy says otherwise, for any
\* number of submitters, codes, tokens and commands (submitter.go Challenge,
\* Activate; control.go Confirm, apply).
THEOREM RevokedUntilConfirmed == PolicySpec => RevocationsLast
<1>1. ASSUME PInv, PInv', [PolicyNext]_policy, NEW s \in Submitters,
             submitters[s].status = "revoked", submitters'[s].status # "revoked"
      PROVE  /\ submitters'[s].status = "active"
             /\ Version' = Version + 1
             /\ versions'[Version + 1].after.submitters[s].status = "active"
  <2>1. PICK t \in Tokens : Confirm(t)
    BY <1>1, RevokedStays, Zenon DEF PolicyNext, Control
  <2> QED
    BY <1>1, <2>1, ConfirmReopens
<1>2. PInv /\ PInv' /\ [PolicyNext]_policy =>
        [\A s \in Submitters :
           submitters[s].status = "revoked" /\ submitters'[s].status # "revoked" =>
               /\ submitters'[s].status = "active"
               /\ Version' = Version + 1
               /\ versions'[Version + 1].after.submitters[s].status = "active"]_policy
  BY <1>1, Zenon
<1> QED
  BY <1>2, PolicyInvariance, PTL DEF PolicySpec, RevocationsLast
=============================================================================
