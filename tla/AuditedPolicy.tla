--------------------------- MODULE AuditedPolicy ---------------------------
(***************************************************************************)
(* What the control plane promises of the part of the policy that is under *)
(* version control: a register with a log.  The register changes only when *)
(* an entry is appended to the log.  The entry of a command shows the      *)
(* register as it was and as it became, and no command has two entries.    *)
(* The import of the legacy allowlist shows nothing and comes first.       *)
(***************************************************************************)
EXTENDS Naturals, Sequences

CONSTANTS
    Keys,           \* the commands
    NoDigest,       \* what the entry of the import shows
    Register(_)     \* what a digest shows of the register

VARIABLES
    register,       \* the versioned policy in force
    log             \* the audit events of the versions, in their order

audited == <<register, log>>

AuditInit == log = <<>>

\* The log grows by one entry.
Grows ==
    /\ Len(log') = Len(log) + 1
    /\ log' = Append(log, log'[Len(log')])

Import ==
    /\ Grows
    /\ log = <<>>
    /\ log'[1].before = NoDigest

Change(key) ==
    /\ Grows
    /\ \A v \in 1 .. Len(log) : log[v].key # key
    /\ LET entry == log'[Len(log')]
       IN /\ entry.key = key
          /\ Register(entry.before) = register
          /\ Register(entry.after) = register'

AuditNext == Import \/ \E key \in Keys : Change(key)

AuditSpec == AuditInit /\ [][AuditNext]_audited
=============================================================================
