# A TLA+ development of mailproof

Mailproof takes mail that verified submitters forward to it, analyses it, and
answers with a signed report. This directory models the parts of the system
that change durable state, checks them with TLC on small instances, and proves
the safety properties with TLAPS for every instance.

## The system and what models it

| Part | Source | Module | State |
| --- | --- | --- | --- |
| run queue | `internal/queue` | `RunQueue` | modelled |
| worker, reporter | `cmd/mailproof` (`worker`, `reporter`), `internal/evidence/publish.go`, `internal/report`, `internal/results` (`InsertRecord`) | `Pipeline` over `RunQueue`; promise: `EvidenceTrail` | modelled |
| collector | `cmd/mailproof` (`collect`), `internal/artifact`, `internal/ingress`, `internal/admission/header.go` | `Collector`; promise: `Intake` | modelled |
| submitter enrollment | `internal/submitter` | `Policy`; promise: `AuditedPolicy` | modelled |
| control API | `internal/control` | `Policy`; promise: `AuditedPolicy` | modelled; its other endpoints only read |
| admission policy service | `internal/admission` | `Admission` over `Policy`; promise: `QuotaLedger` | all but SPF evaluation |
| analytics | `internal/analytics`, `cmd/mailproof` (`analytics-projector`, `analytics`) | `Analytics`; promise: `EventTally`; the deduplication of events in `RunQueue` | modelled |
| campaign intelligence | `internal/intel`, `cmd/mailproof` (`intel-projector`, `intel`) | `Intel` | modelled |
| verdict policy, analyzers, results API, dashboard, report layout | `internal/evidence/policy.go`, `internal/analyzers`, `internal/results/http.go`, `internal/dashboard`, ... | none | not modelled, see below |

How they interact: Postfix asks the admission service about each recipient and
adds its stamp to admitted mail; Dovecot delivers into a Maildir. The collector
sweeps the Maildir, seals each message, consumes its stamp and inserts a run or
a rejection into SQLite. Workers lease queued runs and publish the analysis;
reporters lease analysed runs, publish and sign the report, record the result
and mail one reply. Each of these transactions also inserts analytics events,
which a projector counts into buckets; eligible result records enter an outbox
from which another projector builds campaigns. The processes share only the database and the artifact
directory. Each SQLite transaction is one atomic action; everything between
two transactions or two published files interleaves.

## Modules

**RunQueue** is the table `runs`. A row keeps state, delivery, attempt counters,
lease owner and last error. Time is kept as the two comparisons the SQL makes:
`due` (`not_before <= now`) and `expired` (`lease_until < now`). Counters
saturate at `MaxAttempts`, where the code asks nothing more of them. The order
that `created_at` gives to waiting rows is left open.

**Pipeline** adds the processes. `proc[p]` is a program counter with a job:
`ClaimJob`, `Recover` (the lease recovery at the start of `Claim`), then for a
worker `Analyze`, one `Publish` per file and `FinishAnalysis`; for a reporter
`ReadAnalysis`, one `Publish` per file, `VerifyBundle`, `InsertRecord`,
`BeginReportAttempt`, `Submit`, `FinishReportAttempt` and `FinishReport` or
`Quarantine`. Any step may fail (`RetryJob`), find its lease gone (`LeaseLost`)
or be cut off (`Crash`). The content of a file is the process that wrote it:
that is all that verification can tell apart, since rendering is a function of
the analysis and only the manifest holds a time. `SubmitOutcome` lists what
`Submit` may answer against what Postfix did; an error of `QUIT` after an
accepted message is a plain failure to the caller. The operator's `redeliver`
reads and updates in two statements and is one action, because the risk flag
may be given for any run and so no further outcome exists.

**EvidenceTrail** is what the pipeline promises per run: evidence grows in one
order, a reply is mailed after all of it and at most once.

**Collector** is `collect` and `collectOnce` in the order of their calls. Rows
are known by the Maildir entry they are about, as ids are random. A second
insert of a `source_key` is ignored by the database, and the row that refers to
the new delivery then fails its foreign key: `Refused`. What the headers say is
abstracted to a constant `Stamp` and to a choice of rejection reason. A killed
collector leaves its lease to `Gone`, an owner that never returns, since a
restarted process draws a new id.

**Intake** is what the collector promises per entry: sealed, then one outcome
for ever, and a run only against a stamp spent on that entry.

**Policy** is the shared policy: enrollment (`Challenge`, `Activate`, `Revoke`,
`Rotate`), the control API (`Preview`, `Confirm`), the bootstrap import and
expiry. A digest is the policy it digests; a rotated capability is the token it
is derived from, and a token that was confirmed or ran out is `Spent`. Refused
requests change nothing and are no action.
Transactions that read before they write either commit on the state they read
or fail (SQLite answers `SQLITE_BUSY_SNAPSHOT`), so each is atomic. `peer_block_put` stands for both
block types that `Admit` applies and `subject_allowlist_put` for both that the
preflight applies. The equal-key order of the unstable rule sort is not
modelled: it can only add refusals of `Confirm`.

**AuditedPolicy** is what the control plane promises of quotas and of rules that
do not expire: a register that changes only when the log of audit events grows
by one, by an event that shows the register before and after, one event per
command; the import of the legacy allowlist shows nothing and comes first.
Enrollment, expiry and previews are stutters of it. Statuses and capabilities
are not in the register, because enrollment changes them without a version.

**Admission** puts the admission service on top of it: handlers decide on a
polled snapshot, wait for DNS, then count and store. Here the transaction is
two actions, `Count` and `Store`, with the stale mark that SQLite's refusal
depends on, because the quota rests on that refusal.

**QuotaLedger** is what the service promises of quotas: one clerk, who weighs
an admission against the whole ledger and enters it in the same step, under the
quota that a published version gives the submitter. Publishing a version
changes no earlier one. Snapshots, DNS questions and refused inserts are
stutters of it.

**Analytics** is the event table, the projector with its lease, and the
operator's `rebuild` and `retain`. A bucket's `event_count` is kept as its
summands: `rollups[l][s]` is how often event `s` is counted at level `l`.
`Read` and `Write` are the two halves of the projector's transaction, with the
same stale mark as in `Admission`. The checks of `retain` come before its
transaction (`RetainCheck`, `Retain`). The history variable `drift` says what
an event's counts are off by: +1 for a rebuild that counted it ahead of the
projector, -1 for an event that got an id at or below the cursor.

**EventTally** is what the projection promises: one reader passes over the
events in the order of their ids and counts exactly those it passes, once at
every level; a recount treats all levels alike; a release deletes only events
that were passed, together with their minute. Leases, projectors and their
transactions are not in it.

**Intel** is the outbox, the projectors and the campaigns. `Lease`, `Persist`,
`Finish` and the three steps of `RebuildComponents` (two reads and a
transaction) follow the calls of `ProjectOnce`. A campaign is known by what its
id is derived from, the least key of its component or its only run. The keys
of a run are a constant, because its evidence is signed and immutable; only
runs with an eligible record occur. In this tree `campaignEligible` asks for a
verdict and a category that `Decide` never yields, so the outbox stays empty
in production; the module says what happens once records are eligible as
`docs/dashboard-metrics-v1.md` describes them. Which of several active
campaigns becomes the heir of a superseded one depends on the order of a Go
map and is left open.

`MCPipeline`, `MCCollector`, `MCPolicy`, `MCAdmission`, `MCAnalytics` and `MCIntel` give the constants
values for TLC. Definitions preceded by "Mutant" change an action the way a
plausible bug would and are used by nothing else; each property is violated
when its mutant takes the place of the action.

## Runs

`AnalyticsOverlap` and `AnalyticsOnce` check for deadlock; all other runs set
`CHECK_DEADLOCK FALSE`: with an empty queue, Maildir or outbox and nothing left
of the bounds the system legitimately stops.

| Run | Shows | Distinct states |
| --- | --- | --- |
| `PipelineRest` | one worker, two reporters, three attempts, one crash: at most one reply, truthful final states, one author per bundle, a complete analysis behind every report, events that agree with the tables, immutable evidence, the trail is implemented, a queued run comes to rest | 99,072 |
| `PipelineReplay` | two runs, of two deliveries or one replayed, one without reply address: no run answers for another | 1,934,165 |
| `CollectorOverlap` | two collectors whose sweeps overlap, two copies of one stamp, one error or kill: one outcome per entry, one entry per stamp, `Intake` is implemented | 470,048 |
| `CollectorRest` | one collector, three messages, two errors or kills: every message is recorded | 131,456 |
| `PolicyAudit` | two submitters of one address, two tokens, an allowlist rule and a block that expires: only verified mailboxes are active, a revocation lasts until a version says otherwise, the audit trail chains and digests what was put in force, `AuditedPolicy` is implemented | 1,238,186 |
| `AdmissionOverlap` | two handlers, two windows, a lagging snapshot: quotas hold, decisions follow the version they name, `QuotaLedger` is implemented | 982,685 |
| `AnalyticsOverlap` | two projectors, two events, rebuilds, retention, one failure or kill: counts are exact but for two causes, `EventTally` is implemented, no command loses a count it could keep, retention deletes only counted events, events above the cursor are counted | 275,548 |
| `IntelOverlap` | two projectors and an operator, three runs of which one links the other two, batches of two, one failure, kill or command: only linked runs meet in a campaign or a supersession, components of one rebuild are disjoint and have campaigns of their own, a rebuild on a current reading repairs what came before, supersession ends, every item is closed for good | 361,631 |

### Runs that find a disagreement

- `PipelineQuarantine`: `QuarantineReply` is commented as terminal; `Retry` of
  a reporter that lost its lease takes the run out of quarantine. A second mail
  is still ruled out, because `report.json` is published only once.
- `PolicyPreview`: a preview is called a commitment to one real operation;
  disabling a live rule is always answered with a conflict, since computing the
  first digest blanks the rule ids that the second looks for.
- `PolicyRevoke`: the runbook's revocation fails for an address that was revoked
  and enrolled before, on `UNIQUE(canonical_address, status)`.
- `AnalyticsOnce`: each stage of the funnel is documented as a count of distinct
  entity ids; a rebuild counts events that the projector has yet to reach, and
  the projector then counts them again.

Further disagreements were met while modelling and have no run of their own:

- The runbook on work orchestration says leases are renewed each minute;
  `Renew` is never called, so a slow job works on without its lease. The
  pipeline's properties hold nevertheless, and their proofs use no lease.
- The backup runbook says selected-subject failures are delivered to the
  forwarder; `collectOnce` records an ambiguous subject without a notification.
- `event_id` is not `AUTOINCREMENT`: after retention has emptied the table, new
  events get ids at or below the cursor and are never projected (`drift` -1).
- A rebuild of a window whose events were purged deletes hour and day buckets
  that are documented to be kept for 366 days and five years.
  `CountsOutliveCommands` confines the loss to events without a row.
- A rebuild of campaigns that read before another and commits after it leaves
  the older grouping in force, with a run in an active campaign that is no
  longer its component; a stop between `finish` and `RebuildComponents` leaves a
  projected run in no campaign; `intel activate` makes superseded campaigns
  active again. All of it lasts until a rebuild commits a current reading
  (`RebuildsRepair`).
- A confirmation compares the policy that the command leads to, not the one it
  was previewed against. A reactivation that was previewed while the submitter
  was active, and so shown as no change, undoes a revocation made since.
  `RevocationsLast` therefore asks only that the audit event shows the
  submitter active afterwards, not that it shows it revoked before.

### Bounds

Two processes of a kind are the fewest that overlap; a third adds only another
late process, which the unguarded `Retry` and the expired lease already give.
`MaxAttempts` 3 is the value of the code; 2 in `PipelineReplay` keeps two runs
in reach. `MaxCrashes` and `MaxFaults` bound stops; lease expiry is not
bounded. Two copies of one stamp and an unstamped message are the cases
`ConsumeStamp` tells apart. Admission times run over 0..2 with windows of 1 and
2 ticks, so that a row leaves the short window inside the long one.
`PolicyAudit` has one rule that does not expire, which can be imported, put and
disabled, and a block that expires while versions commit. Analytics time runs
over 0..4 with days of two units, so that an hour expires while its day is
kept, and two commands let a rebuild follow a retention; two events are the
fewest of which one is projected and one is not. Three runs in `IntelOverlap`
are the fewest that make two campaigns merge, and one command or fault beside
two unbounded projectors lets an old rebuild commit after a newer one. Symmetry
is used only in runs without liveness, over processes and over values no action
names.

### Fairness

`RunsComeToRest` assumes weak fairness of each process (the supervisor restarts
it and the loops poll) and of time. Nothing is assumed of the operator, of
mail, or of crashes, which are bounded. It is checked with one run: as claim
order is open, an operator who redelivers one run for ever could starve
another in the model. `EveryEntryIsRecorded` assumes weak fairness of the
collector and of lease expiry, with a single collector as it is deployed; two
could take the lease from each other for ever in the model.
`EventsAreProjected` assumes weak fairness of the projectors together: as long
as one of them can take a step, one of them does, since each is restarted
whenever it stops. It also assumes weak fairness of lease expiry, and strong
fairness of the commit `Write` of some projector: the transaction takes far
less than the poll interval, so they are not all overtaken by another commit
every time. `ItemsAreClosed` assumes weak fairness of the projectors together
and that some lease expires as long as there is one (time passes); it assumes
nothing of the operator.

## Proofs

All theorems hold for arbitrary sets of runs, processes, messages, submitters,
events and so on, and arbitrary bounds, from the named assumption of each
module (`QueueAssumption`, `PipelineAssumption`, `CollectorAssumption`,
`PolicyAssumption`, `AdmissionAssumption`, `AnalyticsAssumption`,
`IntelAssumption`), which only types the constants, with two exceptions. In the
calendar of `Analytics` truncation is monotone, and a day starts with a bucket
of every level. In `Intel` the runs are finite in number, and no key is the
name of a run: the code puts `singleton:` before the latter.

| Module | Theorem | States |
| --- | --- | --- |
| `PipelineProofs` | `TypeCorrect`, `AnsweredAtMostOnce` | `TypeOK`, `AtMostOneReply` |
| `PipelineEvidence` | `EvidenceStays`, `BundlesAreWhole`, `ReportsFollowAnalysis`, `ClosedAreTruthful` | `EvidenceIsImmutable`, `RecordBindsOneBundle`, `ReportPhaseHasAnalysis`, `ClosedRunsAreTruthful` |
| `PipelineTrail` | `PipelineImplementsTrail`, `EventsAgree` | `ImplementsTrail`, `EventsFollowState` |
| `CollectorProofs` | `CollectorTypeCorrect`, `EntriesHaveOneOutcome`, `StampsAdmitOnce`, `AddressedAreVerified`, `CollectorImplementsIntake` | `TypeOK`, `OneOutcomePerEntry`, `StampAdmitsOneEntry`, `OnlyVerifiedForwardersAreAddressed`, `ImplementsIntake` |
| `PolicyProofs` | `PolicyTypeCorrect`, `ActiveAreVerified`, `DigestsAreTrue`, `AuditEventsChain`, `PolicyImplementsAudit`, `RevokedUntilConfirmed` | `PolicyTypeOK`, `OnlyVerifiedMailboxesAreActive`, `VersionsDigestTheirPolicy`, `AuditChain`, `ImplementsAudit`, `RevocationsLast` |
| `AdmissionProofs` | `AdmissionTypeCorrect`, `QuotasHold`, `DecisionsFollow`, `AdmissionImplementsLedger` | `TypeOK`, `QuotaHolds`, `DecisionsFollowTheirVersion`, `ImplementsLedger` |
| `AnalyticsProofs` | `AnalyticsTypeCorrect`, `ProjectionIsExact`, `CountsOutlive`, `PurgedAreCounted`, `AnalyticsImplementsTally` | `TypeOK`, `ExactCounts`, `CountsOutliveCommands`, `PurgedEventsAreCounted`, `ImplementsTally` |
| `IntelProofs` | `IntelTypeCorrect`, `MembersAreLinked`, `ComponentsHaveTheirOwnCampaign`, `SupersessionHasNoCycle`, `RebuildRepairs`; `ComponentIsLeast` | `TypeOK`, `MembersShareKeys`, `GroupsAreDistinct`, `SupersessionEnds`, `RebuildsRepair`; what the walk over the keys reaches |

The arguments:

- **At most one reply.** `AtMostOneReply` is not inductive: a second reporter
  could be anywhere in `reportRun`. `ReplyInv` adds that a reporter past the
  publication of `report.json` is the author of that file (`PastOwnsReport`),
  so at most one is past it per run and it is past it once, and that attempts
  and mail follow that reporter's position (`AttemptsFollowReporter`). Neither
  leases nor states of rows occur in it: the write-once file, not the lease,
  prevents the second reply.
- **Evidence.** A process with a job relies on files that are never rewritten:
  every reporter has the analysis on disk (`AnalysisInv`), one past
  `report.json` wrote each file its counter has left behind (`BundleInv`), and on
  a closed run no reporter is past it (`ClosedInv`).
- **The trail.** The stage of a run is read off its durable state; `TrailInv`
  says that the durable state is never ahead of itself. Each step then maps to
  one step of the trail or to a stutter.
- **Collector.** A collector past a step of `collectOnce` can rely on what the
  step made durable, because nothing durable is taken back. The lease is not
  used.
- **Policy.** A capability in force was drawn, or is a confirmed token, and
  neither is drawn again. Quotas and rules that do not expire change only with
  the version, so the tables and every live preview agree with the version in
  force. `PolicyImplementsAudit` adds that a token keeps the key of its command
  and a key is confirmed once, so a confirmation appends one event that shows
  the register before and after. A revoked submitter has a capability in
  force, so no code that is still out can activate it, and a row of its address
  that is enrolled anew is another row: only a confirmed command reopens it
  (`RevokedUntilConfirmed`).
- **Admission.** `AdmissionProofs` builds on the policy's invariant. A handler
  carries what its version said, and versions do not change (`Follows`); what it
  counted still holds when it inserts, as any commit in between makes the
  insert fail (`Counting`). The count has no upper end in time, so windows that
  end after the insert have room too. With the same two facts the insert alone
  is the clerk's step of `QuotaLedger`; that a commit changes no earlier
  version comes from the policy's refinement of `AuditedPolicy`.
- **Analytics.** A batch that can be committed is the batch of the current
  table; ids are unique; a retention under way saw a clock and a cursor that
  are not ahead of the current ones. Then a commit adds one to each level of
  exactly the events it moves the cursor past, which is the reader's step of
  `EventTally`; a window of whole days cuts no bucket of any level, so a rebuild
  is a recount; and what a retention deletes lies at or below the cursor it
  saw, so it is a release.
- **Campaigns.** A set of runs is `Whole` if no set of runs closed under shared
  keys splits it. The walk from a run reaches a fixed point within as many
  rounds as there are runs, shown by induction over sets of rounds; what it
  reaches is whole and closed, so components are disjoint and their least keys
  differ. The members of a campaign are whole and linked to the key or run it is
  named after, so what a later rebuild adds to it is linked to what it has; a
  superseded campaign is whole together with its heir. What a process read long
  ago stays whole, as more runs only add links. A new heir is one of the
  campaigns that the rebuild writes, whose own `superseded_by` it clears in the
  same transaction, so it closes no cycle. The members of a campaign are
  linked to its name, so if the reading is current they are all in the component
  of that name (`RebuildRepairs`).

Only model-checked are the liveness properties (`RunsComeToRest`,
`EveryEntryIsRecorded`, `EventsAreProjected`, `ItemsAreClosed`), which need
fairness and `ENABLED`, and the properties that the code violates. No safety
property that a passing run checks is left without a theorem. The proofs show
that the walk over the keys reaches exactly the connected component of its
start (`ComponentIsLeast`); that it visits runs in the order of the code is
abstracted away.

## Not modelled

Analyzers, SPF evaluation, MIME parsing and the extraction of indicators are
byte-level functions without shared state. The verdict policy (`Decide`) is a
pure case distinction; a model would restate it, and there is no second
definition to check it against. The results API, the dashboard, the analytics
queries and the read endpoints of the control API change nothing. Rendering and signing are abstracted to authorship.
`Renew`, `EnqueueCollection`, `rejection_work_items` and
`decision_signing_outbox` have no production caller or consumer. The write-once
link of a report file is taken as durable, though its directory is not synced.
