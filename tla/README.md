# CloudGuardIQ: specification, model checking and proofs

CloudGuardIQ scans cloud subscriptions, keeps the findings in Cosmos DB, and has
a language model write a remediation card for the most important ones. It runs as
a FastAPI application and three Azure Functions (a 5-minute scan timer, a daily
purge timer and a Service Bus worker) that share one database. No document is
ever written with an etag: all of them read, compute and upsert whole documents,
and the order of their awaits is the only protocol there is. That is what most of
these specifications are about; the rest follow a live resource through
collectors, rules, engine and store, which agree on key names and on nothing else.

Paths are relative to the repository root; `cloudguardiq/` holds the program.

## 1. Inventory

| Component | State | Operations | Hard behaviour | Correct when |
|---|---|---|---|---|
| **Findings store and scan reconciliation** (`core/database.py`, `pipeline/scan_pipeline.py`, `api/main.py`) | one document per finding: status, who resolved it, timestamps, `seen_count`, tenant | merge of a scan, auto-resolve sweep, triage routes | timer, `POST /scan` and triage interleave at every await; every failed call is logged and skipped | the store mirrors the subscription after a scan, a sweep takes only what was not detected, no document contradicts itself, nothing the user decided is lost |
| **Subscription registry** (`subscriptions/repository.py`, `api/subscriptions.py`, `function_app.py`) | one record per subscription: Enabled, Disabled or Removed with a stamp, last scan; the data that hangs from it | link, restore, rename, disable, unlink, mirror from onboarding, scan stamp, purge | seven writers of stale copies; a purge of several documents; a cap counted before the write | tombstones can be and are purged, nothing is purged early unless its record was rewritten meanwhile, the cap of the plan |
| **AI remediation and its quota** (`pipeline/ai_worker.py`, `ai/remediation_engine.py`, `billing/quota.py`, `billing/usage.py`) | the queue, cards, a counter per tenant and month | queue the top findings, generate, retry, save, count | at-least-once delivery, a check and an increment many seconds apart, month ends | a tenant gets what its plan includes and is not charged for more than it got |
| **Billing and Stripe** (`api/billing.py`, `billing/stripe_service.py`, `billing/repository.py`) | one billing record per tenant | checkout, downgrade, webhooks | webhooks reordered or duplicated, checkout writing over them, an upsert that fails | no tier is held that was not sold; what is paid for arrives |
| **Tier middleware** (`billing/middleware.py`) | an hour of cached tiers | reject a scan by its declared size | cache and record are in different repositories | never above what was sold |
| **Policy engine and rules** (`policy/engine.py`, `adapters/rules/`, `adapters/native_scanner.py`) | none | evaluate a snapshot, price and rank the findings | rules without a type whitelist, rules that raise, keys nobody writes | a rule reports the resources its document names and no others, and the worst is ranked first |
| **Adapters and scanners** (`adapters/`), partly | none | read a resource, write a snapshot | failed reads that look like clean answers, lists that end early | a failure is never taken for a fix |
| **Posture score** (`posture/score.py`), partly with the compliance scorecard | none | aggregate open findings | weights, rounding | a severe finding shows |
| **Onboarding and consent** (`api/subscriptions.py`, `api/onboarding_v1.py`, `tenants/`) | Azure sessions in Cosmos DB, AWS and GCP sessions in memory, consents | create, consent, reader granted, discover or verify, connect | stale copies across Azure calls, a connect that stops halfway, restarts | nothing without consent, no claim without a link |
| **Cloud connections, credential references, audit** (`onboarding/`) | connection status, references to secrets, the memory behind both | connect, refresh, disconnect | refresh against disconnect, a store that falls back to memory | a disconnected connection stays so and has no credentials |
| Pricing cache (`adapters/pricing/`) | prices and the time of their fetch | refresh, get | staleness at boot | live prices win once fetched |
| Reports (`reports/`) | blobs and documents | generate, list, download | two writes | a listed report can be downloaded |
| Authentication, self-healing, observability, CLI, scripts, frontend, infrastructure | — | — | — | outside the model |

Interactions: both scan paths call `CosmosRepository.save_finding` and
`mark_unseen_findings_resolved` (findings); they read and stamp the registry
(`mark_scanned`); `ScanPipeline._queue_findings` checks the quota and fills the
Service Bus queue, from which `AIWorker` works; the purge timer deletes findings
of the records that the registry has kept as tombstones long enough; the plan in
the billing record bounds the registry, the cadence and the quota, and the
middleware caches it. A scan is a collector of `adapters/` per resource type, the
engine over each snapshot, then findings. Connecting an onboarding session links
subscriptions through the registry's route and mirrors them for the timer.

## 2. Modules

| Module | What it is |
|---|---|
| `FindingLifecycle` | the findings container of one subscription and all its writers |
| `FindingLedger` | the abstract promise of that container: a ledger with one atomic transition per finding |
| `SubscriptionRegistry` | the registry of one tenant and all its writers, the timers and the clock |
| `RemediationQuota` | producer, queue, workers, on-demand requests and the monthly counter |
| `Rules` | what a rule is: type whitelist, severity, patterns over the keys of a snapshot |
| `AwsRules`, `GcpRules`, `AzureRules` | the 152 rules of the registries, one operator per rule class |
| `CloudReads` | live resources of the sixteen collected types, the calls a collector makes, the snapshot it writes |
| `PolicyEngine` | which rules an engine asks, cost and waste, both priorities, the posture score |
| `ScanRounds` | one resource and its findings over scans: owner, collector, engine, sweep |
| `Plans` | tiers, prices, and the size of scan a plan allows |
| `BillingAccount` | the billing record, its requests and webhooks, Stripe, and the middleware |
| `Entitlement` | the abstract promise: wherever a tier is kept, it was sold |
| `OnboardingState` | the state of onboarding and of its handlers |
| `CloudConnections` | connections and credential references, refresh and disconnect |
| `Onboarding` | sessions, consent, connect and mirrors, composed with `CloudConnections` |
| `MC…` | small instances |
| `…Proofs` | theorems, a module per component (`FindingLedgerProofs` extends `FindingLifecycleProofs` to what a sweep owes its scan and a writer the ledger) |

### FindingLifecycle

`doc` is the container, by finding id. `present` and `faulty` are the live
subscription, which drifts. A scan has its local variables (`phase`, `res`,
`found`, `todo`, `seen`, `cur`, `held`), named after what `ScanPipeline.run` and
`scan_subscription` hold across their awaits; `held` is every document a scan has
read and not written back. `edit` is a triage request with the row it read. One
action is one awaited call: `Begin` (enumerate and evaluate), `ReadExisting` and
`Save` (the two halves of `save_finding`), `SweepQuery`, `Sweep` and `EndSweep`
(`mark_unseen_findings_resolved`), `Report`; `TriageRead` and `TriageWrite`.
Failures are actions of their own (`SaveFails`, `SweepFails`, `SkipSweep`,
`TriageFails`, `Crash`), and a failed write may have landed. The operators
`Merged`, `AutoResolved` and `Decided` are the document logic. The two kinds of
resource id (`build_id` for scanned resources, the ARM id for Azure Policy ones)
are `PolicyFindings`, because the sweep compares one with the other. `EntryOf`, at the
end of the module, maps a document to an entry of `FindingLedger`
(`ImplementsLedger`): whether it is there, its status, and whether a scan or a user
resolved it.

A user is known by the `sub` of the token, or by the empty string when
authentication is disabled or the token has none (`Actors`); `Decided` stores
whichever it is.

Abstracted: severity, text and cost of a finding; a stamp is present or absent; of
`seen_count` only whether the finding was seen again (`again`).

### SubscriptionRegistry

`rec` is the container, `data` the subscriptions with findings or snapshots,
`strays` those with documents the purge does not look for (findings in the partition
"unknown", cards under ids it does not know), `log`
the age of the newest `scan_result` (the clock of the cooldown of `POST /scan`),
`granted` the Reader grants. Timestamps are ages in days that `Tick` increments in
every copy, stored or held; they saturate where the code stops telling them apart
(`Retention + 1`, `Cooldown`). `req` is what a request or the scan timer is doing
with the copy it holds, `batch` the records a timer run read at its start,
`doomed` and `wiping` a purge run; `rewritten` is a history variable, the records
of that run that were upserted since its query. A negative `Cap` is an unlimited
plan. A route is a read action that computes the copy
(`AddRead`, `AddCount`, `PatchRead`, `RemoveRead`, `MirrorRead`, `MarkRead`) and
the common upsert `Put`. The cascade of `purge_subscription_data` is one action
per subscription, and may leave data behind.

### RemediationQuota

`queue` counts messages per finding (numbered by priority), `job` is the
generation an actor is in, with the step it will do next and the counter document
it read; `locked` are the workers whose message Service Bus still considers
theirs. `used` is the stored counter; `delivered` is a history variable, the cards
that were generated and should be counted in this month. The steps `check`,
`generate`, `save`, `resave`, `count`, `charge` are the awaits of
`process_message`, `RemediationEngine.generate` and `record_ai_remediation`; the
route lacks `resave`. `NewMonth` may happen between any two. The environment has
`LockExpires` (redelivery while the worker carries on) and `Dies`.

### Rules, CloudReads, PolicyEngine and ScanRounds

A snapshot is, for a rule, the dict it reads; `CloudReads` writes that dict from the
attributes of a live resource (`unread` stands for the settings rules ask
about and no collector reads), one builder per collector, with the key names the
collector uses and with what its `except` branch leaves behind a failed call. A
value is a token for the values the rules tell apart (`"missing"` for a key nobody
wrote, Python's falsy values by name). A rule is a record: its whitelist, severity,
the patterns it fires on and those on which it raises. The registries are sets of
rules. `PolicyEngine` has the two engines: the timer's, behind the whitelist, and
that of `POST /scan`, which also gets the scanner's rules as callables that bypass
it. Money is in cents, shares are integer percentages and rounding is Python's, to
even. `ScanRounds` is one resource of any type in any state of its attributes:
`Drift` and `Delete` are its owner's, `AbortedScan`, `SnapshotScan`, `AbsentScan`
and `EmptyScan` what a scan amounts to, by which reads failed and by the path.
`Meaning` is what the rules' own docstrings say they report, in terms of the live
resource, for every rule of a collected type but those about metrics and costs.
`Blind` and `FalseAlarm` name each rule and case in which the code answers
otherwise; section 5 has the disagreements behind them.
Scans are sequential there: interleaving is the subject of `FindingLifecycle`,
whose constant `Detectable` this module fills with content.

Abstracted: titles, explanations and framework labels of a rule (their number is
kept, the engine ranks by it). Several resources are compared where they meet, in the
ranking of the whole scan: `RivalRanks` are the ranks of the lesser findings of any
scanned type in any state.

### BillingAccount

`record` is the document, `req` and `hook` the handlers of requests and of webhook
deliveries with the copy each holds, `gate` the middleware's cache. Stripe is the
environment: customers made, checkout sessions open, subscriptions, and `outbox`,
the events it has not been answered 200 for. A handler is one action per stretch
between two awaits: `CheckoutRead`, `CheckoutCustomer`, `CheckoutSession`,
`CheckoutSave`; `DowngradeRead`, `DowngradeSave`; `HookRead`, `HookSave`, with a
failing variant of each. A webhook for an unknown customer, or of a kind the route
does not handle, is answered 200 (`HookIgnores`); one whose upsert raised is not.
`Shared` says whether the middleware reads the repository the routes write: it does
not when the lifespan hook ran, since that hook replaces the routes' one.
The middleware knows a tenant by the `X-Tenant-Id` header or, without one, by the
client's host (`Keys`), under which there is no record (`Resolved`). `Priced` are the
paid tiers with a price configured: an event without a price is ENTERPRISE when
that tier has none.
`ceiling` is a history variable, the highest tier ever sold; the mapping to
`Entitlement` keeps it and takes record and cache as the places that hold a tier.

### OnboardingState, CloudConnections, Onboarding

`azure` is the container of Azure sessions, `mem` the sessions in process memory,
`consent` the consents. `conn` and `cred` are the two containers of a connection,
`held` and `credHeld` the memory both repositories fall back to without raising.
`task` are the handlers with the copies they hold; a record read from the memory is
the stored object itself (`alias`), so an assignment to it is already a write.
`CloudConnections` has connect's two upserts, refresh and disconnect, await by
await; `Onboarding` the session routes of both APIs (`v1` marks a connect that goes
on to the connection and the mirrors), the consent callback, discover and the loop
of connect that adds one scope per step and may be refused at each. `AuthDisabled`
is the development switch that lets connect and discover pass without consent. `linked`,
`mirrored`, `revoked` and `failed` are history variables.

Abstracted: what adding a subscription does to the registry (`SubscriptionRegistry`
has it), external ids and generated artifacts, verification time stamps.

### Adversity

Each module takes the hazards its environment exhibits as the constant
`Adversity`, a set of names (overlap, failing reads and writes, crash,
redelivery, drift ...). Without `"overlap"` an actor starts only when the others
are at rest, which gives the serial behaviour of the code as the base case: what
fails there is a fault of the logic, what fails only with a hazard is a fault of
the handling of that hazard. No configuration replaces a definition.

## 3. Runs

| Run | Instance | Shows |
|---|---|---|
| `finding_serial` | 2 findings on 2 resources, timer, `POST /scan`, 1 user, drift | after a scan with a sweep the store says what the scan evaluated to (`MirrorAfterScan`); the container implements `FindingLedger` (`ImplementsLedger`). Every enumeration is complete here: a truncated one is in the next run and in section 5 |
| `finding_overlap` | 1 finding of Azure Policy, both scans, 1 user, partial results, failing reads and writes, crashes | whatever interleaves, no document contradicts itself (`StoredDocsCoherent`), a write from a current copy loses nothing (`FreshWriteIsLossless`), the sweep of a scan touches only what that scan did not evaluate to, or evaluated to and could not save (`SweepOnlyUndetected`), and every step that writes no stale copy is a transition of the ledger (`OnlyStaleWritesBreakLedger`) |
| `finding_live` | 1 finding, both scans, 1 user, drift, failing writes | an issue fixed for good leaves the OPEN view for good (`FixedIssueLeavesDashboard`) |
| `registry_serial` | 2 subscriptions, cap 1, a day of cooldown and of retention | a subscription that was not linked joins only below the cap of the plan (`NewLinksRespectCap`) |
| `registry_adverse` | 1 subscription, every route and timer, every failure | whatever stale copy is written last, a tombstone keeps the stamp the purge query needs (`TombstonesPurgeable`), so with fair timers it goes or is linked again (`TombstonesExpire`); a purge run destroys nothing before its time, unless the record was written after the query of the run (`EarlyPurgeNeedsRewrite`) |
| `quota_serial` | 3 findings, cap 2, worker and route, model and send failures | no month has more cards than the plan, although scans over-queue (`QuotaHonoured`); between generations the counter is exact across month ends (`UsageExact`) |
| `quota_overlap` | 2 findings, worker and route concurrently, everything fails | the counter never exceeds what was generated (`NeverOvercharged`), and what is counted is stored (`ChargedCardStored`) |
| `quota_live` | 3 findings, one worker, failures of every call | the most important finding gets a card (`TopFindingGetsCard`) |
| `scan_rounds` | 1 resource of each of the 16 types, in every state, 1 change by its owner, every combination of failing reads | with all reads answered the OPEN findings are the issues the rules' documents name, less the blind spots and plus the false alarms that are listed (`VerdictsFollowReads`); a CRITICAL finding is ranked above every other of its resource whatever that costs, and above the lesser ones of all other resources below an impact of 416.67 dollars (`CriticalFirst`); only a failed list and four reads whose failure looks clean hide an issue (`OnlyFailOpenReadsHide`); a severe finding lowers the score (`SevereFindingLowersScore`) |
| `billing_serial` | 2 subscriptions, 2 Stripe customers, 1 request, 1 webhook handler, 4 events, failing Stripe calls and upserts, restarts | when Stripe has nothing left to say the record agrees with the one subscription bought (`SettledTier`); no tier that was not sold (`ImplementsEntitlement`); what is paid arrives (`PaidTierArrives`) |
| `onboarding` | 1 Azure session for another tenant, 1 AWS session, 2 scopes, 1 connection, rejections, failing stores, restarts | consent before access, claims that were linked, nothing connected forgotten, a disconnect that lasts and revokes |
| `finding_lost_triage` | minimal | a disagreement between documentation and code, section 5 |

`TypeOK` of each module is checked in one run of the module. Every property of a
run has a mutant, an operator of the module marked `Bug:` that changes one
definition the way a mistake in the code would; with it TLC finds the property
violated.

**Why these bounds.** The hazards are pairwise: a stale copy needs a reader that
writes late and one writer in between, so one document with two writers shows
them, and a second document is there only where properties relate two of them (a
sweep that must tell findings apart, a cap). One day of retention and of cooldown
distinguishes young from expired; ages saturate where comparisons stop changing. A
cap of two with three findings leaves one out; `MaxQueued` bounds the messages of
a finding (a full queue only delays a producer) and `MaxDelivered` exceeds the
cap by at least one, so that a violation of the cap is reachable.
`scan_rounds` is exhaustive in the attributes the collectors read; one evaluation sees
one snapshot, so resources are taken one at a time, except in the ranking, which
orders the findings of the whole scan: there `CriticalFirst` compares a CRITICAL
finding with every lesser one a resource of any type in any state can have. One change
by the owner gives each scan a before and an after. In `billing_serial` two
subscriptions tell the one that ended from the one in force, and four events let
one be bought, repriced and ended; interleaved handlers with every adversity are
left to the proof (and to `MCBillingOverlap`, which is no run since it shows nothing
the proof does not). `onboarding` has a
scope that is rejected after one that was linked; its connection is made by either
cloud; states that differ only in the history of mirrored scopes, which no action and
no property of the run reads, are identified (`VIEW ButMirrors`). Sessions for the operator's
own tenant, which need no consent, and overlapping requests are covered by
`OnboardingProofs` alone.

**Fairness.** The platform fires the timers for ever (`WF` of `Begin` for the timer
scan, `TimerFire`, `PurgeQuery`, `QueueFindings`), the clock runs (`Tick`,
`NewMonth`), and an admitted request or execution goes on (`WF` of its steps):
Azure Functions and asyncio neither starve nor pause a task. A call to Cosmos DB,
Service Bus or the model that is repeated succeeds in the end (`SF` of the
successful step), which is the usual meaning of a transient error. Nothing is
assumed of users, of `POST /scan`, of the grant or of the drift. In billing, a
request under way goes on (`WF`), and Stripe repeats a delivery until it is
answered 200, so an event that stays deliverable is received and its upsert
succeeds in the end (`SF` of `Receive` and `HookSave`); nothing obliges anyone to
pay or to cancel. `finding_live`
and `quota_live` leave crashes and redelivery out: a platform that kills each
execution makes no progress; `registry_adverse` keeps them, because the purge is
restartable at every point.

## 4. Proofs

For every value of the constants, under the assumptions named in the modules
(`FindingsAssumption`, `RegistryAssumption`, `QuotaAssumption`,
`BillingAssumption`, `OnboardingAssumption`, `RoundsAssumption`: constants have the
right kind, sentinels are no data; the actors of the quota are finite in number,
since cardinalities count them). TLC evaluates them in each run.

Every theorem holds of every interleaving and every adversity: none assumes that
actors do not overlap or that calls succeed. The one hypothesis beyond the
assumptions of the modules is in `Implements`, that both paid tiers have a price
configured; section 5 has what happens when one has not. What holds only of serial
executions is model-checked and not proved (below). The inductive invariants were
checked by TLC on small instances before they were proved.

- **`FindingLifecycleProofs`**: `TypeCorrect`, `Coherence` (`StoredDocsCoherent`)
  and `LosslessFreshWrites` (`FreshWriteIsLossless`). A stored document is a
  function of one that somebody held, so coherence of the container alone is not
  inductive. `IInv` adds that every document in flight (held by a scan, or in a
  triage request) is coherent, and that a sweep holds only OPEN rows. The document
  operators each get a lemma (`MergedDoc`, `AutoResolvedDoc`, `DecidedDoc`): a
  coherent document becomes a coherent document. Each action then stores or holds
  the result of one of them.
- **`FindingLedgerProofs`**: `DetectedIsSpared` (`SweepOnlyUndetected`) and
  `CurrentWritesKeepLedger` (`OnlyStaleWritesBreakLedger`). `Books` is what a scan
  knows of its own sweep whatever others do: it starts when each finding was saved or
  given up, and holds nothing that was saved; a finding the same scan detected can
  be among its candidates only because its save raised. The ledger theorem goes
  action by action: a step that writes back the copy the row still has is `Merged`,
  `AutoResolved` or `Decided` of the stored document, which are the transitions of
  `FindingLedger`; all other steps stutter. A stale write is the only step that is
  neither, and the run `finding_lost_triage` shows one.
- **`SubscriptionRegistryProofs`**: `TypeCorrect`, `StampSurvives`
  (`TombstonesPurgeable`) and `RetentionHolds` (`EarlyPurgeNeedsRewrite`). Again the
  invariant ranges over the copies, those of requests and those of the timer's batch;
  the clock turns stamps into older stamps, never into none. For the retention,
  `DoomedExpired`: what the purge query selected is still past its time or was
  written since. The only writers are upserts, which enter it in `rewritten`, and
  the purge itself; time makes nothing younger.
- **`RemediationQuotaProofs`**: `TypeCorrect`, `NoOvercharge` (`NeverOvercharged`)
  and `ChargedCardsExist` (`ChargedCardStored`) of every interleaving. The counter is
  bounded by an accounting argument: each card on its way to be counted is a claim on
  the difference between `delivered` and `used`, and a stale copy of the counter is
  at most what was stored, which was at most `delivered` minus the claims of the
  others. `Claims` and `CopiesClaim` say so with cardinalities of the sets of
  actors at each step; a month end moves stale copies to `Past`, whose upsert goes
  to another document.
- **`BillingAccountProofs`**: `TypeCorrect`, `OnlySoldTiers` and `Implements`
  (`ImplementsEntitlement`), for any number of handlers and every adversity, the last
  where both paid tiers are priced. A
  tier reaches the record from an event, and an event from a subscription; so the
  invariant `Below` bounds them all by `ceiling`, the copies in flight too, and
  `Wired` adds where handlers and subscriptions got their ids. Each action then
  sells a tier, holds a sellable one, or stutters. Hence neither reordering nor
  staleness can raise a tier above what was bought: what they can do is give back
  an old one (section 5).
- **`OnboardingProofs`**: `TypeCorrect`, `CopiesAreHonest`, `ConsentComesFirst`
  (`ConsentBeforeAccess`) and `ClaimsAreTrue` (`ConnectedWasLinked`), for every
  interleaving. Sessions are overwritten by whole copies, so the invariant is about
  copies: each claims only what was linked, and one that knows of scopes has the
  consent of its customer, which nothing takes back, unless authentication is disabled.
- **`ScanRoundsProofs`**: `TypeCorrect`, `ReadsDecide` (`VerdictsFollowReads`),
  `OnlyFailOpenHides` (`OnlyFailOpenReadsHide`) and `CriticalRanksFirst`
  (`CriticalFirst`), for any set of types and any number of changes by the owner.
  Findings are keyed by rule id, so first the rule packs: a sheet of ids for each
  cloud, from which no two rules share an id (`UniqueIds`). Then one lemma for each
  collected type, with the finite case analysis behind it: a rule fires on every state
  that is its issue and that it is not blind to, unless one of its `FailOpenReads`
  failed, and on no other but its false alarms when all reads were answered
  (`TableHolds`). `RoundsInv` adds that the rows are the verdicts of the last scan as
  long as nothing changed since (`LastTold`). `CriticalRanksFirst` rests on
  the packs instead. Within a resource, the priority of the timer's engine ranks a
  CRITICAL rule first because it has at least four frameworks and is about security,
  while another rule is LOW, or has almost no frameworks, or reports no waste (`Ranked`;
  the severity alone would not do, since waste and frameworks together weigh more than
  the distance between two severities). Across resources it has a floor of 70 points
  (`UrgentPriority`), which a lesser finding reaches only with an impact of `CatchUp`
  (`CheapStaysBelow`). Three CRITICAL rules have fewer frameworks; no
  collector writes a resource of their types (`Uncollected`), and the day one does the
  theorem is to be looked at again.

Only model-checked:

- Everything under fairness, which is beyond the prover: `FixedIssueLeavesDashboard`,
  `TombstonesExpire`, `TopFindingGetsCard`, `PaidTierArrives`.
- What holds while actors take turns and fails when they overlap, so that a theorem
  would have to assume away what the code does not exclude: `MirrorAfterScan`,
  `ImplementsLedger`, `NewLinksRespectCap`, `QuotaHonoured`, `UsageExact`,
  `SettledTier`, `DisconnectRevokes`, `DisconnectIsFinal` and
  `ConnectedNeverForgotten`. Their runs show that the logic is right in itself;
  section 5 has the interleaving or failure that defeats each.
- `SevereFindingLowersScore`: the score divides by sums over the whole rule pack, and a
  sum over a set is a recursive function, which only an induction could evaluate. The
  property does not depend on history, and `scan_rounds` enumerates every state of the
  attributes and every failing read, so the run is exhaustive for it within one change.
- The statements of section 5, which do not hold.

## 5. Where documentation and code disagree

One regular run: `finding_lost_triage` (`TriageNeverReverted`): a scan that read a
row before the user snoozed it writes OPEN over the decision
(`core/database.py:265` against the read at 291 and the upsert at 335).

Further disagreements. Each is stated at the end of its module, or is a property of
section 3 that fails with one more hazard. The second column is the configuration
that reproduces it: a file beside this one, for instance
`tlc -config MCRegistryOrphan.cfg MCSubscriptionRegistry`, or such a file with the
constants changed as said and the property in place of its own.

| Violated | Configuration | What the code does |
|---|---|---|
| `RedetectionReopens` | `MCFindingLostTriage` with `Decisions = {"RESOLVED"}`, `Adversity = {}` | a finding the user resolved and that is detected again stays RESOLVED; `api/main.py:1215` promises OPEN |
| `HistoryNeverForgotten` | `MCFindingReadError` | a read that failed counts as "no such row" (`core/database.py:294`): history and triage are reset |
| `SweptIsUnreported` | `MCFindingReadError` with `Adversity = {"write_error"}` | a detected finding whose save failed is resolved by the same scan (`api/main.py:753-754`) |
| `MirrorAfterScan` | `MCFindingReadError` with `Adversity = {"write_error"}` | the same failed save or a failed sweep: the store is not what the scan evaluated to |
| `ImplementsLedger` | `MCFindingLostTriage` with this property | the write from a stale copy is no transition of the ledger |
| `FixedFindingStaysForAudit` | `MCFindingPolicyFixed` | a fixed Azure Policy finding is deleted although its resource exists (`core/database.py:361-366`) |
| `DegradedScanDeletesNothing` | `MCFindingPartial` | a truncated enumeration deletes the findings of the resources it lacks (`api/main.py:775-777`) |
| `NoNullFields` | `MCFindingReadError` with `Adversity = {"drift"}` | reopening stores `resolved_by = null`, which the model of `core/models.py:152` rejects |
| `OnlyUsersRevive` | `MCRegistryRevive` | the scan timer undoes a removal with the record it read earlier (`subscriptions/repository.py:295-297`, `function_app.py:331`) |
| `NoOrphanData` | `MCRegistryOrphan` | findings in the partition "unknown" (`core/database.py:281`) and cards, looked up by finding id (`core/database.py:904`), outlive the purge although every call succeeds |
| `CapEnforced` | `MCRegistrySerial` with `Ops = {"add", "remove"}`, `Adversity = {}` | a restore is not counted against the cap (`api/subscriptions.py:483-494`; its comment argues that the cap is not paid twice, but a removed record is not counted) |
| `NewLinksRespectCap` | `MCRegistrySerial` with `Users = {u1, u2}`, `Ops = {"add"}`, `Adversity = {"overlap"}` | two links count before either is stored |
| `RetentionHonoured` | `MCRegistryRevive` with `Ops = {"add", "remove", "purge"}`, `Adversity = {"overlap"}` | a record restored after the purge query is wiped and deleted (`function_app.py:384-388`) |
| `DisabledNeverScanned` | `MCRegistryRevive` with `Ops = {"add", "patch", "scan"}`, `Adversity = {}` | `POST /scan` admits a Disabled subscription (`docs/saas-decisions.md:61-62`) |
| `CadenceHonoured` | `MCRegistryRevive` with `Ops = {"add", "timer"}`, `Cap = 2`, `Adversity = {}` | linking a linked subscription again clears `last_scan_at` (`function_app.py:226-227`) |
| `RevokedGetsDisabled` | `MCRegistryRevive` with `Ops = {"add", "timer"}`, `Adversity = {"revoke"}`, `FairSpec` | a revoked grant yields an empty scan, not an authentication failure (`README.md:605-606`) |
| `CachedCardReturned` | `MCQuotaCached` | the card of a finding is looked up by the wrong id and never found (`api/main.py:1295` against 1311) |
| `PayingNeverBlocked` | `MCQuotaCached` with `Cap = 2`, `MaxRetries = 2`, `Adversity = {"read_error"}` | a billing record that could not be read makes a paying tenant a FREE one (`billing/quota.py:70-72`) |
| `CounterNeverFalls` | `MCQuotaCached` with `Adversity = {"read_error"}` | a counter that could not be read restarts at one (`billing/usage.py:99`) |
| `QuotaHonoured` | `MCQuotaSerial` with `NumFindings = 2`, `Workers = {w1, w2}`, `Users = {}`, `Cap = 1`, `MaxRetries = 1`, `Ops = {"scan"}`, `Adversity = {"overlap"}` | two workers pass the check before either counts (`README.md:307-309`) |
| `UsageExact` | `MCQuotaSerial` with `NumFindings = 2`, `Workers = {w1, w2}`, `Users = {}`, `Cap = 2`, `MaxRetries = 1`, `Ops = {"scan"}`, `Adversity = {"overlap"}` | two workers add one to the same counter (`billing/usage.py:126`) |
| `EveryFindingGetsCard` | `MCQuotaLive` with `NumFindings = 2`, `Cap = 1`, `Adversity = {}` | each scan queues the same top findings, and the others never get a card (`README.md:97`) |
| `RoutedByProvider` | `MCRoundsRouted` | Azure rules without a type whitelist fire on AWS and GCP resources, KV-001 (CRITICAL) on every one (`adapters/rules/aws/registry.py:3-8`) |
| `SoftDeleteReported` | `MCRoundsSoftDelete` | KV-001 reads a key no collector writes and reports vaults that have soft delete (`keyvault.py:93`); `AlwaysReported` has the sixteen rules that report every resource of their type for that reason, and GCP-NET-003 takes ICMP, a protocol without ports, for any port |
| `IssuesAreReported` | `MCScanRounds` with this property | NET-001 and NET-002 look ports 22 and 3389 up by name, so ranges and `*` are not seen ("any inbound rule allows port 22", `adapters/rules/azure/network.py:142`); AWS-IAM-002 passes users whose password was never used ("console access but no MFA device", `adapters/rules/aws/iam.py:49`); the rules of `NeverReported` read keys no collector writes and report nothing, GCP-IAM-004 because it raises on the number the adapter writes |
| `ResolvedMeansFixed` | `MCScanRounds` with this property | `POST /scan` raises typed Azure findings on resources of other types, and the next timer scan resolves them as fixed (`core/database.py:361-366`) |
| `GoneIsCleared` | `MCScanRounds` with this property | once the last resource is gone the scan is empty, and an empty scan is not swept (`api/main.py:777-778`) |
| `WasteWithinCost` | `MCScanRounds` with this property | two rules report the whole cost of one disk as waste (FIN-002, FIN-003 and FIN-008 overlap) |
| `NeverBelowPaid` | `MCBillingUpgrade` | the end of an old subscription makes a tenant FREE that pays for a newer one (`api/billing.py:186-187` against 259) |
| `NeverAbovePaid` | `MCBillingReorder` | an update delivered after the deletion restores the tier (`api/billing.py:266`) |
| `DowngradeSticks` | `MCBillingDowngrade` | a downgrade by the route leaves the Stripe subscription, and the next webhook raises the tier again (`api/billing.py:208`) |
| `SettledTier` | `MCBillingReorder` with `Adversity = {"overlap"}` or `{"read_error"}` | checkout stores the record it read before Stripe was called (`api/billing.py:175`); a read that failed makes a blank record |
| `PayerIsKnown` | `MCBillingSerial` with `Requests = {r1, r2}`, `Hooks = {h1, h2}`, `TTL = 1`, `Adversity = {"overlap"}`, `Spec` | two checkouts make two Stripe customers and one id is kept (`billing/stripe_service.py:80`) |
| `ImplementsEntitlement` | `MCBillingOverlap` with `Priced = {"PRO"}`, `Adversity = {}` | `stripe_price_enterprise` defaults to "" (`core/config.py:88-90`), so an event without a price makes the tenant ENTERPRISE (`billing/stripe_service.py:68`) |
| `EnterpriseNeverRejected` | `MCBillingReorder` with this property, `Adversity = {}` | a request without the header is looked up by its client host and taken for FREE (`billing/middleware.py:51-63`); where the lifespan hook ran (`Shared = FALSE`) so is every tenant (`billing/middleware.py:117-119`) |
| `CacheFollowsWebhook` | `MCBillingReorder` with `TTL = 2`, `Adversity = {}` | nothing calls `invalidate`; the old tier holds for the hour (`billing/middleware.py:100-101`) |
| `ConnectOnlyFromVerified` | `MCOnboardUnverified` | AWS and GCP sessions connect from any status, and verify passes without a check (`docs/multicloud-onboarding-design.md:62-63`) |
| `DisconnectStopsScans` | `MCOnboardScans` | disconnect leaves the mirrored subscriptions Enabled (`docs/multicloud-onboarding-design.md:206`) |
| `DisconnectIsFinal` | `MCOnboardRevive` | a refresh writes back the connection it read before the disconnect (`api/onboarding_v1.py:1377`) |
| `ConnectedNeverForgotten` | `MCOnboardRevive` with this property | a stale copy of the session, of the callback or of reader-granted, drops what connect stored |
| `DisconnectRevokes` | `MCOnboardRevive` with this property | a disconnect between the two upserts of a connect finds no credential to delete |
| `CompleteStaysComplete` | `MCOnboardScans` with this property | callback and reader-granted send a completed session back (`api/subscriptions.py:794, 958`) |
| `OneConnectionEach` | `MCOnboardScans` with `Conns = {c1, c2}` | connecting again creates another connection (`api/onboarding_v1.py:624` against 636) |
| `ConnectedIsScanned` | `MCOnboardScans` with this property | an AWS or GCP session connects the scopes named and mirrors its account only (`api/onboarding_v1.py:1269`) |
| `LinkedIsConnected` | `MCOnboardScans` with `Adversity = {"reject"}` | a connect that is refused halfway leaves links no session tells of (`api/subscriptions.py:844`) |
| `ConnectedHasConnection` | `MCOnboardScans` with `Adversity = {"store_error"}` | a connection that could not be stored is in memory only, and connect answers success (`api/onboarding_v1.py:1218`) |
| `RevokedMeansGone` | `MCOnboardScans` with `Adversity = {"store_error"}` | a delete that failed is logged, and disconnect answers 204 (`onboarding/credential_ref_repository.py:182`) |

Seen while translating, where no document says otherwise:

- The remediation quota goes to the first findings of the whole scan by priority
  (`pipeline/scan_pipeline.py:257`), and cost can outweigh severity: an unencrypted
  volume of 4000 dollars a month (AWS-EC2-001, HIGH) has 71.0 points and SSH open to the
  world on a group (AWS-SG-001, CRITICAL) 70.0. The documents promise only a score of
  severity, cost and compliance and the first N by it (`README.md:63, 316`); `CatchUp`
  is the impact from which on this can happen.
- A failed read of an S3 ACL, the account summary, a bucket's IAM policy or a
  service account's keys is written as the clean answer and hides a CRITICAL or
  HIGH finding (`FailOpenReads`); one page that fails aborts the whole AWS or GCP
  scan.
- The two scan paths rank by different formulas (100, 75, 50, 25 plus a cost share
  against 100, 80, 60, 40).
- `customer.subscription.created` and the status of an update are ignored.
- DELETE of a connection pops the sessions under the connection's id, under which
  none is stored; audit events are written and never read; `revoke` of a consent is
  called by nobody.
- After a lower tier arrives nothing pauses the subscriptions above its cap
  (`docs/saas-decisions.md:52-60`).

## 6. Not modelled

- The components marked `not_modelled` in `PROJECT.json`, with their reasons:
  reports, the pricing cache and its refresh (a failed fetch counts as fresh for a
  day, `adapters/pricing/live_prices.py:218-238`; rules and engine see its fallback
  table), authentication, self-healing (stubs), read routes, the queued scan request
  that nothing consumes, logging, configuration, scripts, frontend, infrastructure.
- Rendering, prompts and cloud SDKs.
- The capability cache of the adapters, and of the Azure Policy compliance import
  everything but the ids of its resources.
- The compliance scorecard, which groups findings by framework labels the rules of
  the model do not carry.
- In the registry: the access probe and the consent guard in front of a link (they
  only refuse, and `Onboarding` has them), a change of plan, two tenants that link
  one subscription; which documents make up `data` and `strays`.
- In onboarding: the deploy template, its parameters and the list of initiatives,
  which render documents; the audit log.
- `generate_batch` of the engine, which has no caller; the subscription counter of
  the middleware, which is never wired up.
- In-memory repositories used when no database is configured, except those of
  connections and credentials: there a record is shared by reference and every
  operation is atomic.

## 7. Plan

1. Change of plan: `BillingAccount` composed with `SubscriptionRegistry` (decision D3
   in `docs/saas-decisions.md`), and with `Onboarding` through the registry's upserts.
2. Caches: prices and capabilities, with the clock.
3. Reports (blob and document), the compliance scorecard, the queued scan request,
   the rules about metrics and costs in `Meaning`.
4. Theorems: the composition of (1), as far as it holds of every interleaving, the way
   `CurrentWritesKeepLedger` names the stale write instead of excluding it. The same
   form for the quota (which increments are lost) and for onboarding (which copies
   forget a connection).
