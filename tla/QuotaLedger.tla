---------------------------- MODULE QuotaLedger ----------------------------
(***************************************************************************)
(* What the admission service promises of its quotas: a ledger kept by one *)
(* clerk.  An admission is weighed against the whole ledger and entered in *)
(* the same step, under the quota of a version that was published before.  *)
(* What is entered or published stays as it is.                            *)
(***************************************************************************)
EXTENDS Naturals, Sequences, FiniteSets

CONSTANTS
    Submitters,
    Windows,        \* the rolling windows
    Length,         \* per window: its length
    Quota(_, _, _)  \* what is published of a submitter's quota in a version

VARIABLES
    clock,
    latest,         \* the version in force
    published,      \* the versions up to this one
    ledger          \* the admissions, in the order of entry

books == <<clock, latest, published, ledger>>

LedgerInit ==
    /\ clock = 0
    /\ latest = 0
    /\ ledger = <<>>

\* No window that an admission falls into is full, windows that end later than
\* the admission included.
Room(a, quota) ==
    \A w \in Windows :
        Cardinality({i \in 1 .. Len(ledger) : /\ ledger[i].submitter = a.submitter
                                              /\ ledger[i].at + Length[w] > a.at}) < quota[w]

Enter ==
    /\ Len(ledger') = Len(ledger) + 1
    /\ LET a == ledger'[Len(ledger')]
       IN /\ ledger' = Append(ledger, a)
          /\ a.submitter \in Submitters
          /\ a.at <= clock
          /\ a.version \in 0 .. latest
          /\ Room(a, Quota(published, a.submitter, a.version))
    /\ UNCHANGED <<clock, latest, published>>

Publish ==
    /\ latest' = latest + 1
    /\ \A v \in 0 .. latest, s \in Submitters : Quota(published', s, v) = Quota(published, s, v)
    /\ UNCHANGED <<clock, ledger>>

Pass ==
    /\ clock' = clock + 1
    /\ UNCHANGED <<latest, published, ledger>>

LedgerNext == Enter \/ Publish \/ Pass

LedgerSpec == LedgerInit /\ [][LedgerNext]_books
=============================================================================
