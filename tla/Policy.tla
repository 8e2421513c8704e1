------------------------------- MODULE Policy -------------------------------
(***************************************************************************)
(* The admission policy and who may change it: enrollment on the command   *)
(* line (internal/submitter), the control API's previews and confirmations *)
(* (internal/control) and the import of a legacy allowlist.                *)
(*                                                                         *)
(* Each operation is one SQLite transaction.  One that read before it      *)
(* wrote fails when another commit came between (SQLITE_BUSY_SNAPSHOT), so *)
(* each is one atomic action, and a refused one changes nothing.           *)
(* Capabilities, codes and tokens are random and never repeat; the secret  *)
(* of a rotation by the control API is derived from its confirmation token *)
(* and is that token here.  A digest is the policy it is taken of.         *)
(***************************************************************************)
EXTENDS Naturals, Sequences, FiniteSets

CONSTANTS
    Submitters,     \* submitter ids
    Addresses,      \* mailboxes
    Codes,          \* challenge codes
    Secrets,        \* capabilities drawn by activations and rotations
    Tokens,         \* confirmation tokens
    Keys,           \* control commands: idempotency key and command id
    Values,         \* addresses and domains that rules name
    Rules,          \* ids of policy_rules rows
    Shape,          \* per rule id: its type and value, and whether it expires
    Imported,       \* the rules of the legacy allowlist file
    Limits,         \* quota settings
    DefaultLimit,   \* the quota setting of a new submitter
    NoCap,
    NoAddress,
    NoSubmitter,
    NoCommand

\* peer_block_put stands for both blocks that Admit applies, and
\* subject_allowlist_put for both types that the collector's preflight applies.
RuleType == {"peer_block_put", "subject_allowlist_put"}

ASSUME PolicyAssumption ==
    /\ Shape \in [Rules -> [type : RuleType, value : Values, expires : BOOLEAN]]
    /\ IsFiniteSet(Rules)
    /\ Imported \subseteq Rules
    /\ \A r \in Imported : Shape[r].type = "subject_allowlist_put" /\ ~Shape[r].expires
    /\ DefaultLimit \in Limits
    /\ NoCap \notin Secrets \cup Tokens
    /\ Secrets \cap Tokens = {}
    /\ NoAddress \notin Addresses
    /\ NoSubmitter \notin Submitters
    /\ "bootstrap-import" \notin Keys

VARIABLES
    submitters,     \* table submitters
    challenges,     \* table submitter_challenges, by code
    cap,            \* per submitter: its row of submission_capabilities in force
    issued,         \* the secrets drawn so far
    rules,          \* table policy_rules: "absent", "enabled" or "disabled"
    expired,        \* rules whose expires_at has passed
    versions,       \* policy_versions above 0, with their audit_events
    tokens          \* table confirmation_tokens

policy == <<submitters, challenges, cap, issued, rules, expired, versions, tokens>>

-----------------------------------------------------------------------------
Caps == Secrets \cup Tokens

Shapes == {Shape[r] : r \in Rules}

Status == {"absent", "pending", "active", "revoked"}

Submitter == [status : Status, address : Addresses \cup {NoAddress}, limit : Limits]

\* The commands a preview accepts.
Command ==
    [type : {"quota_change"}, submitter : Submitters, limit : Limits]
    \cup [type : {"submitter_suspend", "submitter_reactivate", "capability_rotate"},
          submitter : Submitters]
    \cup [type : {"rule_put"}, shape : Shapes]
    \cup [type : {"rule_disable"}, rule : Rules]

\* The effective policy that a digest covers.  Rules count by their content:
\* rule ids are left out.
EffectivePolicy(subs, caps, rls) ==
    [submitters |-> [s \in Submitters |-> [status |-> subs[s].status,
                                           limit  |-> subs[s].limit]],
     caps       |-> caps,
     rules      |-> [sh \in Shapes |->
                       Cardinality({r \in Rules \ expired :
                                      rls[r] = "enabled" /\ Shape[r] = sh})]]

Effective == EffectivePolicy(submitters, cap, rules)

NoToken == [state |-> "absent", command |-> NoCommand, key |-> "none",
            version |-> 0, before |-> NoCommand, after |-> NoCommand]

\* A token that is used or has expired is refused either way: nothing else of
\* it is read again.
Spent == [NoToken EXCEPT !.state = "spent"]

PolicyInit ==
    /\ submitters = [s \in Submitters |-> [status |-> "absent", address |-> NoAddress,
                                           limit |-> DefaultLimit]]
    /\ challenges = [c \in Codes |-> [state |-> "unused", submitter |-> NoSubmitter]]
    /\ cap = [s \in Submitters |-> NoCap]
    /\ issued = {}
    /\ rules = [r \in Rules |-> "absent"]
    /\ expired = {}
    /\ versions = <<>>
    /\ tokens = [t \in Tokens |-> NoToken]

Version == Len(versions)

-----------------------------------------------------------------------------
(***************************************************************************)
(* Enrollment                                                              *)
(***************************************************************************)
\* Mutant: the table has no UNIQUE constraint.
VacantAlways(s, a, status) == TRUE

\* UNIQUE(canonical_address, status): a row may take a status only if no other
\* row of its address has it.
Vacant(s, a, status) ==
    \A o \in Submitters \ {s} : ~(submitters[o].address = a /\ submitters[o].status = status)

SetStatus(s, status) == submitters' = [submitters EXCEPT ![s].status = status]

\* Mutant: the pending row that is used again gets the default quota back.
ChallengeResets(s, a, c) ==
    /\ challenges[c].state = "unused"
    /\ \A o \in Submitters : ~(submitters[o].address = a /\ submitters[o].status = "active")
    /\ \/ submitters[s].status = "pending" /\ submitters[s].address = a
       \/ submitters[s].status = "absent" /\ Vacant(s, a, "pending")
    /\ submitters' = [submitters EXCEPT ![s] = [status |-> "pending", address |-> a,
                                                limit |-> DefaultLimit]]
    /\ challenges' = [challenges EXCEPT ![c] = [state |-> "open", submitter |-> s]]
    /\ UNCHANGED <<cap, issued, rules, expired, versions, tokens>>

\* Mutant: a revoked row of the address is used again, too.
ChallengeReopens(s, a, c) ==
    /\ challenges[c].state = "unused"
    /\ \A o \in Submitters : ~(submitters[o].address = a /\ submitters[o].status = "active")
    /\ \/ submitters[s].status \in {"pending", "revoked"} /\ submitters[s].address = a
       \/ submitters[s].status = "absent"
    /\ Vacant(s, a, "pending")
    /\ submitters' = [submitters EXCEPT ![s].status = "pending", ![s].address = a]
    /\ challenges' = [challenges EXCEPT ![c] = [state |-> "open", submitter |-> s]]
    /\ UNCHANGED <<cap, issued, rules, expired, versions, tokens>>

\* A pending row of the address is used again.
Challenge(s, a, c) ==
    /\ challenges[c].state = "unused"
    /\ \A o \in Submitters : ~(submitters[o].address = a /\ submitters[o].status = "active")
    /\ \/ /\ submitters[s].status = "pending"
          /\ submitters[s].address = a
          /\ UNCHANGED submitters
       \/ /\ submitters[s].status = "absent"
          /\ Vacant(s, a, "pending")
          /\ submitters' = [submitters EXCEPT ![s] = [status |-> "pending", address |-> a,
                                                      limit |-> DefaultLimit]]
    /\ challenges' = [challenges EXCEPT ![c] = [state |-> "open", submitter |-> s]]
    /\ UNCHANGED <<cap, issued, rules, expired, versions, tokens>>

\* The code of an open challenge activates its pending submitter.  The insert
\* of the capability fails if the submitter has one in force.
Activate(c, secret) ==
    LET s == challenges[c].submitter
    IN /\ challenges[c].state = "open"
       /\ submitters[s].status # "active"
       /\ cap[s] = NoCap
       /\ secret \in Secrets \ issued
       /\ submitters[s].status = "pending" => Vacant(s, submitters[s].address, "active")
       /\ SetStatus(s, IF submitters[s].status = "pending" THEN "active"
                       ELSE submitters[s].status)
       /\ challenges' = [challenges EXCEPT ![c].state = "consumed"]
       /\ cap' = [cap EXCEPT ![s] = secret]
       /\ issued' = issued \cup {secret}
       /\ UNCHANGED <<rules, expired, versions, tokens>>

\* The capability stays in force; it is the status that admission asks for.
Revoke(s) ==
    /\ submitters[s].status = "active"
    /\ Vacant(s, submitters[s].address, "revoked")
    /\ SetStatus(s, "revoked")
    /\ UNCHANGED <<challenges, cap, issued, rules, expired, versions, tokens>>

Rotate(s, secret) ==
    /\ cap[s] # NoCap
    /\ secret \in Secrets \ issued
    /\ cap' = [cap EXCEPT ![s] = secret]
    /\ issued' = issued \cup {secret}
    /\ UNCHANGED <<submitters, challenges, rules, expired, versions, tokens>>

ChallengeExpires(c) ==
    /\ challenges[c].state = "open"
    /\ challenges' = [challenges EXCEPT ![c].state = "expired"]
    /\ UNCHANGED <<submitters, cap, issued, rules, expired, versions, tokens>>
-----------------------------------------------------------------------------
(***************************************************************************)
(* The control API                                                         *)
(***************************************************************************)
\* The submitters of an effective policy after a command on their rows.  A
\* submitter that has no row is left as it is.
Amended(subs, s, field, value) ==
    IF subs[s].status = "absent" THEN subs ELSE [subs EXCEPT ![s][field] = value]

\* The effective policy that a command is expected to lead to.  Taking the
\* digest of the policy before the command blanks the rule ids of the slice
\* that is then searched for the rule to disable, so a rule_disable never
\* finds its rule and projects no change.
ProjectedPolicy(p, command, t) ==
    CASE command.type = "quota_change" ->
           [p EXCEPT !.submitters = Amended(@, command.submitter, "limit", command.limit)]
      [] command.type = "submitter_suspend" ->
           [p EXCEPT !.submitters = Amended(@, command.submitter, "status", "revoked")]
      [] command.type = "submitter_reactivate" ->
           [p EXCEPT !.submitters = Amended(@, command.submitter, "status", "active")]
      [] command.type = "capability_rotate" ->
           [p EXCEPT !.caps[command.submitter] = t]
      [] command.type = "rule_put" ->
           [p EXCEPT !.rules[command.shape] = @ + 1]
      [] command.type = "rule_disable" -> p

\* A preview stores a token and changes nothing else.  Whether the command
\* can be applied is not asked.
Preview(t, command, key) ==
    /\ tokens[t].state = "absent"
    /\ tokens' = [tokens EXCEPT ![t] =
                    [state |-> "open", command |-> command, key |-> key,
                     version |-> Version, before |-> Effective,
                     after |-> ProjectedPolicy(Effective, command, t)]]
    /\ UNCHANGED <<submitters, challenges, cap, issued, rules, expired, versions>>

\* The statements of each command, with the row counts and constraints that
\* decide whether they are applied.
QuotaChange(s, limit) ==
    /\ submitters[s].status # "absent"
    /\ submitters' = [submitters EXCEPT ![s].limit = limit]
    /\ UNCHANGED <<cap, rules>>

Suspend(s) ==
    /\ submitters[s].status = "active"
    /\ Vacant(s, submitters[s].address, "revoked")
    /\ SetStatus(s, "revoked")
    /\ UNCHANGED <<cap, rules>>

\* Mutant: WHERE submitter_id=?, without AND status='revoked'.
ReactivateAny(s) ==
    /\ submitters[s].status # "absent"
    /\ Vacant(s, submitters[s].address, "active")
    /\ SetStatus(s, "active")
    /\ UNCHANGED <<cap, rules>>

Reactivate(s) ==
    /\ submitters[s].status = "revoked"
    /\ Vacant(s, submitters[s].address, "active")
    /\ SetStatus(s, "active")
    /\ UNCHANGED <<cap, rules>>

RotateTo(s, t) ==
    /\ cap[s] # NoCap
    /\ cap' = [cap EXCEPT ![s] = t]
    /\ UNCHANGED <<submitters, rules>>

RulePut(shape) ==
    /\ \E r \in Rules \ expired :
         /\ rules[r] = "absent"
         /\ Shape[r] = shape
         /\ rules' = [rules EXCEPT ![r] = "enabled"]
    /\ UNCHANGED <<submitters, cap>>

RuleDisable(r) ==
    /\ rules[r] = "enabled"
    /\ rules' = [rules EXCEPT ![r] = "disabled"]
    /\ UNCHANGED <<submitters, cap>>

Apply(command, t) ==
    \/ command.type = "quota_change" /\ QuotaChange(command.submitter, command.limit)
    \/ command.type = "submitter_suspend" /\ Suspend(command.submitter)
    \/ command.type = "submitter_reactivate" /\ Reactivate(command.submitter)
    \/ command.type = "capability_rotate" /\ RotateTo(command.submitter, t)
    \/ command.type = "rule_put" /\ RulePut(command.shape)
    \/ command.type = "rule_disable" /\ RuleDisable(command.rule)

\* The rows of one version: the key, the two digests of its audit event, and
\* (for the properties) the policy and the rules in force once it committed.
Committed(key, before, after) ==
    Append(versions, [key |-> key, before |-> before, after |-> after,
                      policy |-> EffectivePolicy(submitters', cap', rules'),
                      enabled |-> {r \in Rules : rules'[r] = "enabled"}])

\* Mutant: the policy is not compared with the one that was shown.
ConfirmUnseen(t) ==
    /\ tokens[t].state = "open"
    /\ tokens[t].version = Version
    /\ \A v \in 1 .. Version : versions[v].key # tokens[t].key
    /\ Apply(tokens[t].command, t)
    /\ versions' = Committed(tokens[t].key, tokens[t].before, tokens[t].after)
    /\ tokens' = [tokens EXCEPT ![t] = Spent]
    /\ UNCHANGED <<challenges, issued, expired>>

\* Mutant: the version is not compared with the one previewed.
ConfirmAnyVersion(t) ==
    /\ tokens[t].state = "open"
    /\ \A v \in 1 .. Version : versions[v].key # tokens[t].key
    /\ Apply(tokens[t].command, t)
    /\ EffectivePolicy(submitters', cap', rules') = tokens[t].after
    /\ versions' = Committed(tokens[t].key, tokens[t].before, tokens[t].after)
    /\ tokens' = [tokens EXCEPT ![t] = Spent]
    /\ UNCHANGED <<challenges, issued, expired>>

\* The token is good for the version it was issued at, the command is new, and
\* the policy it leads to is the one that was shown.
Confirm(t) ==
    /\ tokens[t].state = "open"
    /\ tokens[t].version = Version
    /\ \A v \in 1 .. Version : versions[v].key # tokens[t].key
    /\ Apply(tokens[t].command, t)
    /\ EffectivePolicy(submitters', cap', rules') = tokens[t].after
    /\ versions' = Committed(tokens[t].key, tokens[t].before, tokens[t].after)
    /\ tokens' = [tokens EXCEPT ![t] = Spent]
    /\ UNCHANGED <<challenges, issued, expired>>

TokenExpires(t) ==
    /\ tokens[t].state = "open"
    /\ tokens' = [tokens EXCEPT ![t] = Spent]
    /\ UNCHANGED <<submitters, challenges, cap, issued, rules, expired, versions>>

\* The collector's start: the legacy allowlist becomes version 1, unless a
\* version exists.
BootstrapImport ==
    /\ Version = 0
    /\ rules' = [r \in Rules |-> IF r \in Imported THEN "enabled" ELSE rules[r]]
    /\ UNCHANGED <<submitters, cap>>
    /\ versions' = Committed("bootstrap-import", NoCommand, NoCommand)
    /\ UNCHANGED <<challenges, issued, expired, tokens>>

RuleExpires(r) ==
    /\ Shape[r].expires
    /\ rules[r] # "absent"
    /\ r \notin expired
    /\ expired' = expired \cup {r}
    /\ UNCHANGED <<submitters, challenges, cap, issued, rules, versions, tokens>>

Enrollment ==
    \/ \E s \in Submitters, a \in Addresses, c \in Codes : Challenge(s, a, c)
    \/ \E c \in Codes, secret \in Secrets : Activate(c, secret)
    \/ \E s \in Submitters : Revoke(s)
    \/ \E s \in Submitters, secret \in Secrets : Rotate(s, secret)

Control ==
    \/ \E t \in Tokens, command \in Command, key \in Keys : Preview(t, command, key)
    \/ \E t \in Tokens : Confirm(t)
    \/ BootstrapImport

\* Time passes without a commit.
Expiry ==
    \/ \E c \in Codes : ChallengeExpires(c)
    \/ \E t \in Tokens : TokenExpires(t)
    \/ \E r \in Rules : RuleExpires(r)

PolicyNext == Enrollment \/ Control \/ Expiry

PolicySpec == PolicyInit /\ [][PolicyNext]_policy

-----------------------------------------------------------------------------
(***************************************************************************)
(* Properties                                                              *)
(***************************************************************************)
EffectivePolicies ==
    [submitters : [Submitters -> [status : Status, limit : Limits]],
     caps       : [Submitters -> Caps \cup {NoCap}],
     rules      : [Shapes -> 0 .. Cardinality(Rules) + 1]]

Token == [state   : {"absent", "open", "spent"},
          command : Command \cup {NoCommand},
          key     : Keys \cup {"none"},
          version : 0 .. Version,
          before  : EffectivePolicies \cup {NoCommand},
          after   : EffectivePolicies \cup {NoCommand}]

\* The tables hold rows of their types, an address has at most one row of each
\* status (queue.go, the schema), and no token is ahead of the policy
\* (control.go Preview).
PolicyTypeOK ==
    /\ submitters \in [Submitters -> Submitter]
    /\ \A s, o \in {x \in Submitters : submitters[x].status # "absent"} :
         /\ submitters[s].address = submitters[o].address
         /\ submitters[s].status = submitters[o].status
         => s = o
    /\ challenges \in [Codes -> [state : {"unused", "open", "consumed", "expired"},
                                 submitter : Submitters \cup {NoSubmitter}]]
    /\ cap \in [Submitters -> Caps \cup {NoCap}]
    /\ issued \subseteq Secrets
    /\ rules \in [Rules -> {"absent", "enabled", "disabled"}]
    /\ expired \subseteq Rules
    /\ \A t \in Tokens : tokens[t] \in Token

\* Whatever order challenges, activations, revocations and control commands
\* come in, an active submitter has returned a code sent to its address and
\* has a capability in force that no other submitter has (submitter.go
\* Activate; control.go apply, submitter_reactivate).
OnlyVerifiedMailboxesAreActive ==
    \A s \in Submitters : submitters[s].status = "active" =>
        /\ \E c \in Codes : challenges[c] = [state |-> "consumed", submitter |-> s]
        /\ cap[s] # NoCap
        /\ \A o \in Submitters \ {s} : cap[o] # cap[s]

ByCommand(v) == versions[v].before # NoCommand

\* The policy that a confirmed command put in force is the one whose digest
\* the operator was shown, although enrollment commands and expiries change
\* the policy between preview and confirmation (control.go Confirm).
VersionsDigestTheirPolicy ==
    \A v \in 1 .. Version : ByCommand(v) => versions[v].after = versions[v].policy

Lasting == {sh \in Shapes : ~sh.expires}

\* The part of an effective policy that only versioned commands change: the
\* quotas, and the rules that do not expire.
Versioned(p) ==
    [limits |-> [s \in Submitters |-> p.submitters[s].limit],
     rules  |-> [sh \in Lasting |-> p.rules[sh]]]

\* The audit events of consecutive versions chain: what a command was
\* previewed against is what the version before it put in force (control.go
\* Confirm, which refuses a token of an older version).
AuditChain ==
    \A v \in 2 .. Version : ByCommand(v) =>
        Versioned(versions[v].before) = Versioned(versions[v - 1].policy)

\* The same, read off the rows of the tables.
VersionedOf(subs, rls) ==
    [limits |-> [s \in Submitters |-> subs[s].limit],
     rules  |-> [sh \in Lasting |->
                   Cardinality({r \in Rules : rls[r] = "enabled" /\ Shape[r] = sh})]]

Audit == INSTANCE AuditedPolicy WITH
    NoDigest <- NoCommand,
    Register <- Versioned,
    register <- VersionedOf(submitters, rules),
    log      <- versions

\* No quota and no lasting rule changes behind the audit: whoever enrolls,
\* rotates, previews or lets things expire, only a confirmed command or the
\* first import changes them, once per command, and the audit event shows what
\* they were and what they became (control.go Confirm, apply; submitter.go).
ImplementsAudit == Audit!AuditSpec

\* A revocation lasts: whatever codes are still out, however often the address
\* is enrolled again and whatever the operator confirms or lets expire, a
\* revoked submitter is active again only in a version of the policy whose
\* audit event showed it active (submitter.go Challenge, Activate; control.go
\* Confirm, apply).
RevocationsLast ==
    [][\A s \in Submitters :
         submitters[s].status = "revoked" /\ submitters'[s].status # "revoked" =>
             /\ submitters'[s].status = "active"
             /\ Version' = Version + 1
             /\ versions'[Version + 1].after.submitters[s].status = "active"]_policy

\* A preview is a commitment to one real operation (the comment of
\* validateOperation, control.go): if nothing has changed since, a previewed
\* command whose statements apply is also confirmed.
PreviewIsACommitment ==
    \A t \in Tokens :
        /\ tokens[t].state = "open"
        /\ tokens[t].version = Version
        /\ tokens[t].before = Effective
        /\ \A v \in 1 .. Version : versions[v].key # tokens[t].key
        /\ ENABLED Apply(tokens[t].command, t)
        => ENABLED Confirm(t)

\* The operator's submitter revoke works on every active submitter (the
\* recovery steps of docs/runbooks/backup-restore.md).
ActiveCanBeRevoked ==
    \A s \in Submitters : submitters[s].status = "active" => ENABLED Revoke(s)
=============================================================================
