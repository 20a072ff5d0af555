# Verification of the EvoRuntime control and data planes

TLA+ models of the parts of `src/src/evoruntime` that keep state and act
concurrently or survive failures, model-checked with TLC, with theorems
checked by TLAPS. Paths below are relative to `src/src/evoruntime`.

## 1. The system

EvoRuntime runs campaigns that improve an agent. Campaigns move through a
governed lifecycle, candidates are evaluated on development, selection and
holdout data, nominees are approved and released behind a canary, and every
agent run reports trace events into a tenant's hash chain.

| Part | State | Operations | What is hard |
|---|---|---|---|
| SDK telemetry (`sdk/`) | bounded buffer, outbox, journal file, sequence numbers, acknowledgements | offer, flush, close, drain, append, send, acknowledge, recover, compact | two threads, process and host crashes, requests handled after the client gave up, failing writes |
| Ingest (`server/ingest.py`, `db/ingest.py`) | trace events in a per-tenant chain | ingest a batch, per event accept, reject, duplicate | retries, concurrent batches |
| Campaign machine (`campaign/machine.py`) | phase, resume target, transition log, checkpoints | transition, pause, resume, cancel, checkpoint, reconstruct | sinks that raise, deaths of the process, reconstruction from an old checkpoint |
| Compensation (`campaign/compensation.py`) | declared plan, execution evidence | the gate before canary, promotion and rollback; the rollback walk | executors that raise half-way, retries, evidence outliving the campaign state |
| Control-plane API (`api/service.py`, `api/approvals.py`, `api/canary.py`, `api/claims.py`) | campaign, candidate, release, approval and canary rows | HTTP handlers, one transaction each | READ COMMITTED transactions without row locks |
| Release plane (`release/`, `selection/release_pointer.py`) | versioned release pointer, manifests, the fleet's pins | compare-and-swap, activate, canary, rollback, invalidate | a canary failing half-way, pointer and fleet out of step |
| Datasets and holdouts (`datasets/`, `campaign/generation2.py`) | capability handles, alpha budget, access ledger | resolve, issue, rotate, revoke | concurrent resolves, rotation racing revocation |
| Lineage and deletion (`lineage/`) | payloads, derived data, tombstones, backups | request deletion, revoke, purge, age out | sweeps racing registration |
| Memory and registry (`memory/`, `registry/`) | memory entries, artifacts, status events | propose, promote, quarantine, revoke, expire | queries and writes of transactions that overlap, gates, cascades |
| Selection (`selection/`) | archives, nominations, frozen nominees, evidence | nominate, freeze, graduate, admit to archive | one-way doors, replacement rules |
| Evaluation (`eval/`) | budgets, attempts, results | charge, run arms, cascade, record | budgets at their limit, partial failures |
| Execution and sandbox (`execution/`, `sandbox/`) | staged workspaces, attestations | stage, run, capture, tear down | descendants that outlive the candidate, partial captures, a teardown that fails |
| Plugins, tenancy, DLP, security, server, CLI, harness | documents, signatures, patterns | parse, verify, render | mostly pure functions of one input |

How they interact: agents call the SDK, whose flusher posts batches to the
ingest endpoint. Operators call the control-plane API, which rebuilds a campaign
machine from rows to decide a move. The campaign machine calls the
compensation gate before `canary`, `promoted` and `rolled_back`. The canary
activates a candidate through the release controller, which swaps the release
pointer, and tells the fleet to drop its caches. The memory service writes
artifacts and status events through the registry and asks lineage for deletion.
Campaign specs pin what an evaluation may run and what a candidate may change;
evaluations run in the worker under budgets, store attestations from which the
archives, the nomination and the promotion decision are computed, and a plugin
proposes through a line protocol under the campaign's proposal budget.

What makes each part correct: telemetry loses nothing it acknowledged and keeps
order; a campaign's row is the projection of its history; no release, approval,
claim or deletion is recorded that the evidence of that moment did not warrant;
budgets are never overdrawn by those who draw on them at once; what is signed
or pinned means later what it meant when it was signed; and what a crash or a
failing step leaves behind is repaired or shows.

## 2. Modules

| Module | Models | Role |
|---|---|---|
| `TracePipeline` | `sdk/buffer.py`, `sdk/flusher.py`, `sdk/journal.py`, `sdk/adapter.py`, `sdk/transport.py`, `server/ingest.py`, `db/ingest.py` | component |
| `CampaignPhases` | the lifecycle graph of `campaign/machine.py` and what a history is | shared definitions |
| `CampaignLifecycle` | what a campaign record promises | abstract specification |
| `CampaignMachine` | `campaign/machine.py`, `campaign/compensation.py` | component, implements `CampaignLifecycle` |
| `CampaignApi` | `ControlPlaneService.create_campaign` and `transition_campaign` | component, related to `CampaignLifecycle` |
| `ReleasePlane` | `create_release`, `promote_release`, `rollback_release` of `api/service.py`, `release_activations`; `api/canary.py`, `release/canary.py`, `release/controller.py`, `release/fleet.py`, `release/invalidation.py`, `selection/release_pointer.py` | composes pointer, fleet and canaries with the ledger |
| `ApprovalBoard` | `api/approvals.py` with the gates of `plugins/privileged.py` and `selection/authority.py` | component |
| `JournalOwnership` | `sdk/journal.py`, `Adapter._open_journal` across processes | service |
| `TraceDiscovery` | `db/chain_verification.py`, `db/trace_reads.py`, `core/hashchain.py`, `eval/discovery.py` | service |
| `HoldoutHandles` | `datasets/service.py`, `execution/holdout.py`, `campaign/generation2.py` | service |
| `EvalHarness` | `eval/runner.py`, `eval/budgets.py`, `eval/backends.py`, `eval/tasks.py` | service |
| `ExperimentAnalysis` | `eval/experiment.py`, `sources.py`, `results.py`, `statistics.py`, `slices.py`, `ablation.py` | service |
| `Promotion` | `eval/cascade.py`, `eval/suites.py`, `selection/policy.py` | service |
| `GateReadings` | `selection/authority.py`, `eval/conformance.py` | shared definitions |
| `Selection` | `selection/nomination.py`, `selection/graduation.py` | two services |
| `EvidenceArchive`, `ArchiveViews` | submissions and evaluations of `api/service.py`; `selection/pareto_archive.py`, `mutation_archive.py`, `productivity.py` | services |
| `RecursiveClaim` | `selection/recursive_evidence.py`, `recursive_gate.py`, `api/claims.py` | service |
| `CampaignSpecs` | `campaign/spec.py`, `campaign/masks.py` | service |
| `CompensationPlans`, `ScaffoldRollback` | plans, their store and rows in `campaign/compensation.py` and `api/approvals.py`; `campaign/scaffold_compensation.py` | services |
| `ExecutionWorker` | `execution/worker.py`, `sandbox/executor.py`, `sandbox/staging.py` | service |
| `PluginTransport` | `plugins/protocol.py`, `campaign/budgets.py` | service |
| `PluginSupply` | `plugins/manifest.py`, `plugins/packaging.py`, `sandbox/profile.py` | service |
| `CandidateGates` | `plugins/admission.py`, `plugins/static_analysis.py`, `security/protected_modules.py` | service |
| `SearchStrategies`, `EvidenceDistillers` | the strategies of `plugins/research` and `plugins/reference` | services |
| `ArtifactRegistry` | `registry/`, `lineage/payload_store.py` | service |
| `LineageStore` | `lineage/service.py`, `lineage/backup.py`, `lineage/purge.py`, `lineage/deletion.py` | service |
| `MemoryPlane` | `memory/` with the registry's events and the sweeps of `lineage/` | service |
| `SignedPolicies` | `security/signing.py`, `security/protected_modules.py`, `tenancy/`, records of `plugins/privileged.py` | service |
| `OutcomeAttestations` | `fixture_agent/`, `sdk/attestation.py` | service |
| `FleetConvergence` | `release/fleet.py` and its wrapper in `api/canary.py` | service |
| `PointerSwap` | `ReleasePointerStore.compare_and_swap` in several threads | service |
| `MCApprovalBoard`, `MCReleasePlane`, `MCPromotion`, `MCSubsystems` | | instances for TLC |
| `TracePipeline_proofs`, `CampaignMachine_proofs`, `CampaignApi_proofs`, `ReleasePlane_proofs`, `ApprovalBoard_proofs`, `Records_proofs`, `Services_proofs`, `MCSubsystems_proofs` | | theorems |

In every module one action is one critical section, one system call, one
request or one transaction of the code: whatever the code does without another
actor being able to act in between. A refusal (an exception that changes no
state) is a disabled action. The operators with a mutated body that stand
beside a definition (`DueAnyOrder` next to `Due`) are the seeded errors that
show each property can fail; no specification uses them.

### TracePipeline

Event *e* is the *e*-th one offered. `buffer`, `outbox`, `batch`, `chunk`,
`force`, `stopping` and `backoff` are the fields and locals of `EventBuffer`
and `FlushWorker`; `pc` is where the flusher thread is in `_run`, `_cycle` and
`_deliver`; `journal` is the file as a sequence of lines (event records, acknowledgements,
torn fragments), of which the first `synced` survive a host crash. `app` is the thread
that owns the adapter (open, in `flush()`, in `close()`, closed) or `down`
between processes. The API's side is `request`, `late` (requests the client
timed out on) and `chain`, the tenant's events in chain order.

`Crash` kills the process at any step, and may take the host and with it any
part of the unsynced tail; `CrashInWrite` dies within an append and leaves a
prefix of its records, the last possibly torn. `AppendFails` is the same write
returning an error. `SendFails` leaves the request unhandled, handled, or
still to be handled by the API. `Restart` is `Adapter._open_journal`: recover,
compact, renumber, replay.

Left out: an adapter without a journal, payload upload, record encoding,
schema negotiation. The hash chain is in `TraceDiscovery`, two adapters on one
journal in `JournalOwnership`.

### CampaignMachine

`phase`, `resumeTarget` and `log` are the orchestrator's fields and its sink;
`saved` are the checkpoints it wrote. `walk`, `records`, `performed` and `evidence` are
the rollback's walk over the compensation plan: the plan is `1..PlanLen`,
`Cas` the actions that need no execution record (`cas_revert`), `records` the
walk's local list, `evidence` the sink that outlives the process, and
`performed` what was really carried out. `Record` and `RecordFails` are the
two outcomes of appending to the sink. `Reconstruct` replays a checkpoint
into a fresh sink, or, with `SinkKeeps`, into the one the dead process wrote.

Left out: digests and signatures (a mismatch refuses), timestamps and reasons.
The plan's own life (built, signed, stored, loaded) is `CompensationPlans`, and
what the executor does to a scaffold is `ScaffoldRollback`.

### CampaignApi

`phase` and `resumeTarget` are the campaign's row, `log` the transitions table
in commit order. A request goes through three transactions: `ReadRow`,
`ReadHistory`, `Commit`. `Column` is the session's flush, which writes a
column only when the request changed it; `SequenceFree` is the table's unique
constraint. `Abandon` covers refusals, conflicts and lost connections.

### ReleasePlane

`rows` is `release_activations`, a row named by its release and by `at`, the
time its transaction began (`created_at`); the latest row of a release is its
status. `Promote`, `RollBackRelease` and `UndoRelease` open a transaction that
has checked the status, `ListActive` is the query of
`_supersede_other_active`, `CommitMove` the commit. `Create` is one
transaction without a read that another one could make stale.

`pointer` is the release pointer and `fleet` the release whose caches the
fleet holds; `pins` are the fleet's sessions, which live as long as the process
and whose names every canary reuses. A canary's request (`intent` is `canary`)
goes through `Ask` (its release must be in canary status), the admission
of `_ensure_incumbent_active` with its bootstrap from the ledger
(`FindIncumbent`, `Bootstrap`), the harness (`Start` reads the incumbent,
`Activate` swaps the pointer, `Allocate` drops the caches and draws the slice,
`RunTask` pins and runs a paired task and may meet a severity-1 event) and its
outcome. The swap of the pointer compares with what is current and is
one action. `alone` holds the thread whose request has overlapped with no
other one since it began: the properties about one canary or one move are about
such a request, started in any state other requests have left behind.
`Crash` loses pointer, fleet and requests and keeps the ledger.

Left out: signatures and eligibility (they refuse a step); the rows of `canary_runs` (append-only and
only displayed); the compensation gate of the harness, which `CanaryService`
never gives a plan. `ReleaseInvalidator` is modelled although no code of the
server calls it. One plane serves all tenants, as in `get_release_plane`.
The fleet's caches and what converges in them are `FleetConvergence`, and two
swaps that overlap inside `compare_and_swap` are `PointerSwap`.

### ApprovalBoard

One request with its `decisions`, `status` and minted `records`. `decide` is
three steps: `OpenDecision` reads the request without a lock and checks the
caller, `Project` reads the decisions committed by then and computes the
status, `CommitDecision` inserts the decision and writes the status only if it
differs from the one read. `DecisionFails` is the unique constraint. `admit` is
`OpenAdmission` (the status), `Judge` or `Deny` (the decisions, read later) and
`Mint` or `MintFails`. `Fold` is `casefold`: two spellings of one name are two
identities and one person.

Left out: compensation plans (they are in `CompensationPlans`), signatures
(in `SignedPolicies`), reads. A tier-4 request has both of its evidence legs, without which it is
not opened. A tier-3 request for a candidate of tier 4 is never
admitted, since the gate asks for legs such a request cannot carry.

### The services of MCSubsystems

Each of the following modules keeps state that no other one of them touches
while it works: they are reached through services of their own and own tables
of their own. They are checked side by side in one run (section 3).

* **`JournalOwnership`**: up to two adapters of different processes open one
  path, in any order, and may be killed at any point. A session runs
  `_open_journal` in its real order: recover (`BeginSession`), compact to the
  spare file (`OpenSpare`, `WriteSpare`, `PutInPlace`), open, and only then lock.
  Files are inodes: a session keeps the one it opened when the path moves on.
* **`TraceDiscovery`**: the tenant's hash chain, damage done to it behind the
  service, its verification; pages of traces, the classification and clustering
  of failed ones, and two discoverers between the look for a stored report and
  its insertion.
* **`HoldoutHandles`**: issue, resolve, rotate and revoke a capability handle,
  each under the row's lock; expiry; the evaluation that a resolution starts; and
  the two transactions of the generation-2 handoff, the second of which may fail.
* **`EvalHarness`**: the run loop of one task and seed over all arms under a
  meter each, with a scripted or a live backend: reserve, dial, reconcile, while
  the wall clock runs and the backend may fail.
* **`ExperimentAnalysis`**: declaration, task set, runs of every cell, the paired
  comparison, slices, and the ablations' contributions with the bytes stored of
  them.
* **`Promotion`**, **`GateReadings`**: cascade stages in order, the families of a
  transfer suite, and the decision by the six conditions of the policy; the tier a
  release warrants and the outcome of a conformance run.
* **`Selection`**: observations, the trusted selector's freeze over a status-event
  log that others write to; and, with a state of its own, the risk gate of a class.
* **`EvidenceArchive`**, **`ArchiveViews`**: submissions, evaluations and archive
  reports served by threads (read, flush, reconcile, aggregate, commit); what the
  three archives compute of the evidence, and the stored tables between a rebuild and
  the next attestation.
* **`RecursiveClaim`**: the nine fields a request states, the conditions of the gate, and
  a refusal of two commits between which the server may stop. The service looks up no
  experiment: callers state what they like (`Submissions`), or what
  `assemble_recursive_claim_evidence` makes of two generations (`Assembled`). A number is
  an integer or `NoNumber` (none, NaN, an infinity); finite floats are only compared, for
  which integers stand.
* **`CampaignSpecs`**: documents of three versions through validation, the
  canonical form, pinning and storage, parsed again on later days under other
  deployments; the masks over a candidate's files.
* **`CompensationPlans`**, **`ScaffoldRollback`**: a plan built, signed, stored,
  loaded (perhaps damaged), walked and asked for by the gate; the modules
  written back one by one, then the conformance rerun.
* **`ExecutionWorker`**: run after run, stage, bind the proxy, spawn, collect up to the wall
  clock, capture, tear down, attest, with a failure at each of them. The candidate's
  descendants are named by their run, whether they may ask the broker and whether they hold
  the run's output pipes; they start others and end when they like, during later runs too.
  `CleanUp` removes a workspace or, its errors ignored, leaves it. An exception that
  leaves `run` is the step `stopped`.
* **`PluginTransport`**, **`PluginSupply`**, **`CandidateGates`**: requests and
  lines of a child process under the proposal budget; manifests, grants, profiles
  and images of which any blob may be damaged; a candidate's entries and the
  statements of its source. A statement is a spelling (the form of the call, by name or by
  attribute, the names an import has, the literal mode, the positional arguments), which is all the
  scanner reads, and an effect (what it spawns or runs, loads and writes), which only the
  property reads: nothing ties the two but `SaysAll`, where it is asked for.
* **`SearchStrategies`**, **`EvidenceDistillers`**: four strategies whose state the
  orchestrator carries from call to call, asked twice and told out of order; three
  plugins that go through a bundle of evidence an item at a time.
* **`ArtifactRegistry`**, **`LineageStore`**, **`MemoryPlane`**: registrations that
  look and then insert while bodies are deleted; the provenance graph with its
  bounded recursive query, and payloads from storage to the age-out of the last
  backup; memory entries with their events, tombstones and sweeps. A call of the memory
  service is a transaction at READ COMMITTED: it looks (`Look`, `ProposeEntry`), and its writes
  appear in `CommitCall`, or never (`RollBackCall`); what others committed in between it has not
  seen, and `missed` names those rows. Nothing serialises calls, so commits come in any order, as do
  the status events of calls that overlapped (`behind`). All queries of a call are one
  look, and the sweeps of `lineage/`, which one scheduler runs, are steps of their own. `revokedAt`
  and `missed` are history.
* **`SignedPolicies`**, **`OutcomeAttestations`**: documents signed by different keys,
  loaded, obeyed, and recombined field by field; an agent's run, its trace, and the
  verifier's separate reads of a workspace the agent may still write to.
* **`FleetConvergence`**, **`PointerSwap`**: caches that drop and fill again after
  latencies of their own, pins, reports and the memory of two arms; two threads
  inside `compare_and_swap`: compare, number, audit, assign.

In `JournalOwnership` and `PointerSwap` the properties set aside what the code
does not prevent (section 5): an adapter that began beside another and took over
its path, and a swap that overlapped with another.

## 3. Runs

| Run | Checks | Shows |
|---|---|---|
| `trace_recovery` | `TypeOK`, `LossBounded`, `ReplayInOrder`, `FlushMissesOnlyTheBatch` | with three events, one crash and one failed send, no accepted event disappears and a host crash loses fewer than `FsyncMax` journaled ones; whatever is in the retry queue would be replayed and the chain keeps emit order without duplicates; a true `flush()` overlooks at most the batch the flusher holds |
| `trace_overflow` | `AckCoversSettled`, `EventuallySettled` | with a buffer and outbox of one entry, a refused event, a failing journal write and a reopening with or without recovery, an acknowledgement covers only events answered for or let go of, and every accepted event is answered for unless a crash, an eviction, a failed write or `close()` took it |
| `trace_evicted_ack` | `AckMeansIngested` is violated | the journal says delivered for events the outbox evicted |
| `machine` | `TypeOK`, `HistoryGivesPhase`, `HistoryGivesTarget`, `PastGateCovered`, `WalksAreTrue`, `ImplementsLifecycle` | the orchestrator implements the lifecycle and nothing gets past the compensation gate without evidence, which is in order and earned |
| `api` | `TypeOK`, `RowIsProjection`, `NoPhaseSkipped`, `CurrentRequestsImplementLifecycle` | what racing requests cannot break |
| `api_revived` | `CancelledForGood` is violated | what they can |
| `release` | `TypeOK`, `EndsAsServed`, `MovesLeaveOneActive` | a canary nothing interferes with restores its incumbent or serves what it measured, and an undisturbed move leaves one release active, whatever earlier canaries, races, invalidations and a death of the server left behind |
| `release_stranded` | `OnlyCompletedLeavesActive` is violated | a second canary meets the sessions of the first, raises, and leaves the pointer at its candidate |
| `approvals` | `TypeOK`, `AdmittedByTwo`, `StatusEarned`, `CountedOnce` | the two-person rule holds for every record however decisions and admissions overlap |
| `approvals_rejected` | `RejectionEndsReview` is violated | an approval that overlaps with a rejection reopens the review |
| `subsystems` | seventeen properties, below | what each service promises, on an instance of its own |
| `promotion_latency` | `WithinLatency` is violated | a candidate whose p95 latency regressed past the policy's threshold is eligible |

The run `subsystems` chooses one service, `focus`, in its initial state; the
others stay in one fixed initial state, so that the state spaces add up
and do not multiply. It is the union of twenty-nine small exhaustive checks:

| Property | of | says |
|---|---|---|
| `SubsystemTypes` | all | the type invariant of the service in focus |
| `HoldoutAccessIsEarned` | `HoldoutHandles` | the ledger agrees with every handle's budget through rotations and revocations, disclosures are paid for, parent and child of a handoff are never both usable |
| `EvaluationsAreMatched` | `EvalHarness`, `ExperimentAnalysis` | attempts that count fit the one budget, comparisons are of the paired runs, sealed tasks never ran |
| `DeliveredInBudget` | `PluginTransport` | every answer is of its request and every proposal delivered was charged |
| `MemoryIsSound` | `MemoryPlane` | where calls did not overlap, live entries do not contradict each other, revocation reaches the lessons that cite the entry, and rows follow their events; what was ever revoked has its tombstone and loses its payload |
| `ReportsAreSound` | `EvidenceArchive`, `ArchiveViews` | nothing is registered but by the rules nor reported but what the evidence says; views favour nobody; stored tables are behind at most |
| `NomineesFollowTheRule` | `Selection` | frozen nominees are what the pinned rule chooses of the observations |
| `RiskNeverClimbs` | `Selection` | no class graduates to more authority than production began with |
| `ClaimsAreBacked` | `RecursiveClaim` | a label was issued under a research policy that enables it, on stated evidence with a measured advantage over a pinned minimum; generations that yield that evidence back the claim; every refused decision has its boundary row |
| `PassMeansCleanRun` | `ExecutionWorker` | a pass was a timely clean exit with all outputs; a reported run leaves no candidate, no proxy and nothing that holds its pipes, and a workspace only if its removal failed |
| `SignedIsMeant` | `CampaignSpecs`, `SignedPolicies`, `OutcomeAttestations` | what was pinned or signed means later what it meant |
| `RollbacksAreEarned` | `ScaffoldRollback`, `CompensationPlans` | a discharged rollback restored every module and a gate opened on executed actions |
| `ReleasesRestOnWhatRan` | `Promotion`, `FleetConvergence`, `PointerSwap` | eligibility rests on what ran, the fleet serves what it reports, the pointer is as audited |
| `TracesReadBack` | `TraceDiscovery`, `JournalOwnership` | damage shows, discovery is reproducible, and journaled events survive adapters that open one path, but for the cases of section 5 |
| `RegistrySound` | `ArtifactRegistry` | what a caller was told is registered is found, nothing points nowhere |
| `LineageSound` | `LineageStore` | ancestry is exact within a tenant, no copy escapes audit and age-out, deadlines follow |
| `PluginsAreContained` | `PluginSupply`, `CandidateGates`, `SearchStrategies`, `EvidenceDistillers` | grants only narrow, the analysis passes a candidate exactly when nothing in it looks harmful, strategies learn what they were told |

### Bounds

`trace_recovery` uses a buffer of 3, batches of 2 and an fsync every 2 records:
three events then fill one batch and start another, the second batch can queue
behind a failed first one, and a host crash can fall between the two syncs.
`trace_overflow` has capacity 1, so every second event overflows the buffer or
the outbox. `MaxEvents`, `MaxCrashes`, `MaxFailures`, `MaxErrors` and `MaxLate`
bound events, crashes, failed sends, failing writes and requests left to the
API. The `machine` run has a plan of two executed actions around a `cas_revert` one, so that
a walk can fail between the two, nine hops (the whole lifecycle to `promoted`
or `rolled_back` with a pause, or a walk aborted, retried and reconstructed), one
checkpoint, one death and one failure of each kind. The `api` run has two
requests and six transitions: a conflict of sequence numbers, a stale row and
a repeated step need two requests and two transitions; six let the row
reach `paused` and leave it while another request is in flight. The `release` run
has a root release and two candidates for it: a candidate that is not the
incumbent's successor needs the second one. `MaxTxns` of three lets the
ledger hold two active releases, or the incumbent and both candidates; two
threads are a request and one that interferes, two paired tasks a slice that
is neither nothing nor everything. What needs longer histories of the ledger
is covered by the theorems, which have no bound. `release_stranded` has one thread, since
nothing needs to interfere, and four transactions. The approval runs have
two people under two spellings each, the requester being one of them, and a
third person; three threads are two decisions and an admission at once.

The services' instances are in `MCSubsystems` and its configuration. Each has
two of what can interfere (report readers, registering clients, discoverers,
movers, sessions of a journal, tokens a rotation and a resolve compete for) and
enough steps for a third to follow: three ledger rows, requests, observations,
attempts or ticks. Inputs are one good document and one for each way to be bad
(specs, entries, manifests, policies), so that a condition that is dropped lets one
through. Budgets are small multiples of one charge, so that the limit is met exactly and
overstepped: `AlphaTotal` is not a multiple of `AlphaPerQuery`, `Limit` and
`MaxProposals` are reached in the third call. Files, modules and segments are two:
one that is touched and one that is not. Clocks go to `MaxTime` or `MaxClock` of three,
past every window and latency of the instance. Memory has two callers, so that any two transactions
overlap, and four calls: two that put contradictory entries there and two that move them, or an
entry, a lesson that cites it and a revocation beside either; its callers are alike
(`CallerSymmetry`). The worker has two runs, of one output with the broker or of two without,
so that a descendant of the first meets the second.

### Fairness

Only `trace_overflow` assumes any. The flusher is a thread the operating system
schedules, with time-outs on every wait: weak fairness on its steps and on the
expiry of the backoff and the flush interval. The API handles a request it
has received. A send, in the end, succeeds: failures are bounded by
`MaxFailures`. A process that died is started again. Nothing is assumed of the
application: it may never call `flush()` or `close()`. The services have no
liveness property: each of their steps is a call of some client, and nothing in
the code makes a client call again. `CHECK_DEADLOCK FALSE` is said where the
system may stop for good: a finished campaign, a server nobody asks.

## 4. Proofs

TLAPS checks the following for every value of the constants that satisfies the
named assumptions, for behaviours of any length. Bounds such as `MaxEvents` are
constants too. The assumptions are the `ASSUME`s of the modules, which TLC
evaluates in the runs:

* sizes and bounds are natural numbers, positive where the code's configuration
  refuses zero; sets are of the kind the parameter says: a prior release is another
  release, spellings fold to identities, compare-and-swap actions are actions
  of the plan (`PipelineAssumption`, `MachineAssumption`, `ApiAssumption`, `LedgerAssumption`,
  `PlaneAssumption`, `BoardAssumption`, `HandleAssumption`, `HarnessAssumption`,
  `WorkerAssumption`, `ClaimAssumption`, `TransportAssumption`, `SelectionAssumption`,
  `DepthAssumption`, `DeletionAssumption`);
* `FleetAssumption`: at least one worker (release/fleet.py:130), finitely many
  workers and sessions; `RollbackAssumption`: a scaffold has finitely many modules;
  `RegistryAssumption`: finitely many artifacts, whose dependencies are artifacts;
* of inputs, what their parser has established when the model's first action sees them:
  documents have exactly the known keys (`SpecAssumption`) or are of their kind
  (`PolicyAssumption`), an agent's plan consists of steps that `fixture_agent` knows
  (`PlansAssumption`), a manifest declares one of five tiers (`SupplyAssumption`),
  an archive entry is of one of four kinds and expands to a whole number of bytes
  (`EntryAssumption`), a suite names each family once and pytest exits with 0
  only when nothing failed (`PromotionAssumption`), traces and tasks have an order and
  a cluster shows at least one of its members, as every caller asks (`TraceAssumption`),
  a proposal's id is its key and a metric that is kept is a number (`ViewAssumption`),
  a stored table is of one of three kinds (`TableAssumption`), an experiment's arms and a
  partition's tasks are tuples and its seeds and alpha whole numbers (`AnalysisAssumption`).

### TracePipeline_proofs

* `TypeCorrect`, and `AcksCorrect` (`AckCoversSettled`). `AckCoversSettled` is not
  inductive: the acknowledgement written by `Ack` is safe because of what the
  flusher did before. `Safe` adds, in order, that sequence numbers grow along the
  outbox and stay below `nextSeq` (`SeqsOrdered`), that a running process still holds, in the
  outbox, every recorded event it has not let go of (`RecordsHeld`), that the API
  was asked about every event of the chunk (`ChunkAsked`), and hence that the
  acknowledgement about to be written is safe (`AckSafe`).
* `NothingLost` (`NothingVanishes`), `FlushCorrect` (`FlushMissesOnlyTheBatch`):
  `LossInv` follows a drained batch through its append.
* `LossCorrect` (`LossBounded`) while `errors = 0`: `SyncInv` relates the
  writes not yet synced to the records a host crash could take. A failed append leaves
  records that the count of unsynced writes does not know of, so the hypothesis is needed;
  TLC checks `LossBounded` with no failing writes for the same reason.
* `QueueReplayable` and `ReplayCorrect` (`ReplayInOrder`), while `errors = 0` and
  every process recovers (`RecoverOnStart` is `{TRUE}`): `ReplayInv` says that every entry of the outbox
  has a whole record behind the last acknowledgement. A process that opens without recovery writes
  on behind a torn line, and so does a failed append, and then the next recovery stops short.
* `OrderCorrect` (`IngestedInOrder`), for every policy and every fault: `OrderInv` says
  that buffer, batch, outbox, chunk, late requests and chain follow one another
  (`PipelineOrdered`, `InTurn`) and that requests hold only what the SDK validated.

### CampaignMachine_proofs, CampaignApi_proofs

* `TypeCorrect` in both. `HistoryCorrect` (`HistoryGivesPhase`), `TargetCorrect`
  (`HistoryGivesTarget`) and `LifecycleRefined`, when reconstruction gets a fresh
  sink (`~SinkKeeps`; section 5 says what happens otherwise). `LifecycleRefined` is the
  refinement: the initial state maps to the one of `CampaignLifecycle`, each step to
  one of its steps or a stutter. `TargetInv` knows that nothing is paused while it
  is paused, so that the hop before a pause is the way back, in the log and in every checkpoint.
* `GateCorrect` (`PastGateCovered`), with or without a fresh sink: evidence is complete from the moment a walk
  begins to record the edge, and every checkpoint past the gate was taken with
  complete evidence, which only grows. `WalksCorrect` (`WalksAreTrue`): what a walk
  is about to record was performed, in the plan's order.
* `ProjectionCorrect` (`RowIsProjection`), `NoSkipCorrect` (`NoPhaseSkipped`) and
  `CurrentRequestsRefine` (`CurrentRequestsImplementLifecycle`): what a request has
  read was the row at some point of the history, and a request that commits without
  a conflict appends at the end of the history.

### ReleasePlane_proofs, ApprovalBoard_proofs

* `TypeCorrect` in both. `OutcomeCorrect` (`EndsAsServed`) from `RestoreCorrect`
  (`RolledBackRunRestores`) and `MeasureCorrect` (`CompletedRunMeasured`);
  `MovesCorrect` (`MovesLeaveOneActive`). The invariant follows the thread that is alone through
  its canary (`Follows`: what it has read, activated, served and pinned by each
  step; `PinsGrow` is the lemma about the paired tasks) and, for the ledger, says
  that rows and transactions are from the past, so that the rows an undisturbed
  transaction writes are the newest (`Ordered`).
* `TwoPersonCorrect` (`AdmittedByTwo`); `StatusCorrect` (`StatusEarned`);
  `CountedOnceCorrect` (`CountedOnce`) from `OneDecisionCorrect` and
  `PrivilegedOnceCorrect`. A status is stale when it is written, so
  `AdmittedByTwo` needs `ApprovedByTwo`: because decisions only accumulate, an
  "approved" that is stored, remembered by a call or about to be written stands on
  two people's approvals, the caller's own included. `VotesByOthers` keeps the
  requester out.

### Records_proofs

The induction on sets that this module and the next two need is proved first (`LeastNat`,
`NatSetInduction`, `SubsetInduction`, `Recursion`, `StepsAlike`). Then:

* `OwnershipCorrect` (`JournalHasOneOwner`). Lemmas about `Unacknowledged` say what a record,
  an acknowledgement or a renumbered copy leaves to recover. `OwnershipInv` says who may write
  which file: two that run never share one (`OneFileEach`), and of two that are alive one
  began beside the other (`BegunApart`). Until somebody takes the path or its lock
  over, what an adapter that began alone has recovered is still at the path, or in the
  file it has put there (`FoundHolds`); one that runs writes the file at the path, with
  numbers above all it holds, and has in its queue whatever waits there for an acknowledgement
  (`OwnsPath`); hence every event was delivered or waits at the path.
* `DiscoveryCorrect` (`TracesAreFaithful`). The chain: as long as nobody touched it, each row
  is the hash of its event over the hash before it, and no hash is the one it extends. An envelope
  altered, two rows exchanged or one removed in the middle then each violate the row
  they are found at (`AlteredShows`, `ExchangeShows`, `RemovalShows`), and without its
  last row the chain is a prefix. The reports: a report is a function of the
  failures it speaks of (`ReportIsOnBasis`), because the members of a cluster come in the order of
  their tasks (`TaskOrderIs`) whatever order the traces were listed in; so equal
  failures have equal digests, rows differ in their digests, and what a row that verifies
  names is what was clustered (`ReportIsExact`).
* `ArchiveCorrect` (`EvidenceIsSound`): a commit never takes a key from the archive,
  because what a rebuild deletes was evidence when it read, and so is among what it
  writes; rebuilds keep apart by their numbers (`RebuildsApart`).
* `RegistryCorrect` (`RegistrySound`): dependencies have no cycle because a registration
  cites only what it found, however long ago it looked (`SomeOrder`); reachability is a recursive
  function, and an artifact that is reached twice is the refusal of section 5.
* `ViewsCorrect` (`ViewsAreFair`). A sum is a recursive function over the subsets of what is
  added up (`SumOfAll`); `SumsStep`, `SumAlike`, `SharesAddUp` and `SumBetween` say that it grows
  by what is added, is the same under other names, is shared out among the values of a slice,
  and lies between the least and the greatest. Dominance goes one way because rates and
  mean costs are fractions compared across (`FractionsChain`, `DominanceIsOneWay`); it is a
  strict order where all are measured on the same costs (`DominanceChains`), so that the
  chain of dominators of whatever is off the frontier ends on it. A rate is
  of an artifact's own attestations because each of them has a row for every proposal of the
  artifact (`RatesAreOwn`).
* `TablesCorrect` (`TablesTellDrift`): a proposal's id and an attestation name one row
  (`KeysAreOwn`), evidence only grows and leaves the rows there are as they are
  (`ExpectedGrows`); so a table nobody wrote to is a part of what a rebuild would write, and
  a row written by hand stays apart from it whatever is recorded later (`TableInv`). A
  table without drift has the same rows under their keys, and the same rows have the same
  figures (`FiguresAre`, from `SumAlike`). The specification proved about, `TablesSpec`, has every
  step of `ViewNext`, without the bounds of `TablesNext`.
* `AnalysisCorrect` (`AnalysisIsHonest`): every run is of one task, one seed and one
  slice (`RunsAre`), so that sums over the grid may be taken in any of these ways
  (`SumsShared`, `TasksAddUp`, `SeedsAddUp`, `SliceRunsAddUp`) and a mean of differences is the
  difference of means (`SumsApart`). The mean of a sample of tasks is positive only if
  an arm won one of them (`SumSign`, `DrawsAreOfTasks`), and a part of
  alpha, taken as often as there are comparisons, is no more than alpha (`WholeParts`). A
  comparison is made once all cells have run, and then nothing it is about changes
  (`ComparedWhole`, `AnalysisMoves`).

### Services_proofs

Fourteen services, each from its own Init and Next.

* `GraduationCorrect` (`RiskNeverClimbs`) follows a chain of precedents to its first one.
* `PoliciesCorrect`: every document in circulation is its envelope over an acceptable
  document, and every rule in force is one of them. `AttestationCorrect`: what was
  attested was signed by a key that may, of the tests last run, and a record put
  together from two of them verifies only if it is one of them.
* `HoldoutCorrect` (`HoldoutAccessIsEarned`): a handle's token was minted and its
  parent and the ledger's handles exist, so that a fresh token is nobody's and a new
  handle has no charges; lemmas count a handle's ledger rows before and after an append.
* `MemoryCorrect` (`MemoryIsSound`): each open call is sound against the rows of any
  later moment (`CallSound`): what would contradict its newcomer or nominee, escape its revocation or make
  a row it left alone differ is among the rows it missed, because whoever commits adds what it wrote
  there (`OthersStaySound`). A revocation is numbered by entries there were and a tombstone names
  one, without which a citation proposed later could precede it.
* `FleetCorrect`: pins are only added, so a report stays true, and the writer of a
  namespace is pinned to its arm. `FleetHonest` adds the clocks: `ConvergeInv` says
  that a worker that serves again has waited its latency since the last invalidation, and lemmas
  about the order of latencies give the share that has by the reported p99.
* `DeletionCorrect`: nothing is dated in the future, from which each deadline follows
  the event it counts from.
* `WorkerCorrect` (`PassMeansCleanRun`): what is captured, bound and staged at each
  step of the pipeline, so that every failure path releases it, or has its workspace among the
  unremoved; a descendant holds the pipes of a past run only if another one did, and
  none did when its output was collected.
* `ClaimsCorrect` (`ClaimsAreBacked`): the fields of two generations' evidence are read back
  as what the generations produced, the corrected p-value among them, which is no less than the raw
  one; rows on the boundary ledger are counted against refusals, one of which may be
  between its two commits.
* `TransportCorrect` (`DeliveredInBudget`): answers carry numbers below the next
  request's, and the sum of what was delivered is the charge.
* `SelectionCorrect` (`NomineesFollowTheRule`): the shared log read back by arm gives
  exactly the pending decisions, whatever others append to it.
* `PointerCorrect`: each allowed entry of the audit trail belongs to one attempt or one
  move (`UsedOnce`), although two swaps may overlap.
* `RollbackCorrect`: what is still to be restored covers what differs from the incumbent.

### MCSubsystems_proofs

Eight more services, and the union. `PlansCorrect`, `SpecsCorrect` (a pinned
document's canonical form parses to itself), `TracesCorrect`, `AncestryCorrect` (the level
of the query's recursion is the distance in the graph, in both directions), `HarnessCorrect`
(what was billed and reserved is within the meter, and the meter within the limit),
`PromotionCorrect` (results exist before they are decided on; the mean of scores is between them),
`SupplyCorrect`, `GatesCorrect` (no finding of a blocker is exactly what the property calls harmless
to look at, statement by statement, and what an honest spelling does is among what it looks like).
The union takes the theorems of `Records_proofs` with the rest.

`EachRuns` is the theorem about the run `subsystems`: a behaviour of `SubsystemsSpec` is, service by
service, a behaviour of that service's own specification, because one out of
focus is at rest. From it follow `ServicesKeep` (the properties that name one service) and
the composite ones: `RollbacksCorrect` (`RollbacksAreEarned`), `SignedCorrect`
(`SignedIsMeant`), `LineageCorrect` (`LineageSound`), `ReleasesCorrect`
(`ReleasesRestOnWhatRan`), `ReadBackCorrect` (`TracesReadBack`), `ReportsCorrect`
(`ReportsAreSound`), `EvaluationsCorrect` (`EvaluationsAreMatched`).

### Model-checked only

* `EventuallySettled`: it rests on fairness and ENABLED, which are beyond this prover.
* `SubsystemTypes`: where a proof needs the types of a service they are part of its invariant; the
  twenty-nine type invariants as one are left to TLC.
* `PluginsAreContained`: a conjunction of which `SupplyIsSound` and `PassedIsContained` are
  proved. The rest is about search strategies and distillers, which fold sequences
  (`FoldLeft`, `SetToSortSeq`) with library definitions that take an operator, so that what
  they yield needs an induction over data this prover cannot instantiate. A sum or an order
  that a theorem speaks of is therefore written as a recursive function or by rank: `Mean` in
  `Promotion`, `TotalBytes` in `CandidateGates`, `Unacknowledged` in `JournalOwnership`,
  `InTaskOrder` in `TraceDiscovery`, `SumOfAll` in `ArchiveViews`, `SumOver` in `ExperimentAnalysis`.

## 5. Disagreements with the documentation

Listed as findings, each with a run that exhibits it:

* acknowledgements cover evicted events (`trace_evicted_ack`);
* a stale request moves a cancelled campaign on (`api_revived`), and in the
  same way records a transition from a phase the campaign has left;
* a canary that raises leaves the pointer at its candidate (`release_stranded`);
* a rejected request is approved again and admitted (`approvals_rejected`);
* no condition of `evaluate_promotion` reads the latency threshold (`promotion_latency`).

Seen while modelling, and allowed for in the models and properties.

Telemetry and traces:

* `flush()` can return true while the flusher holds a drained batch; `FlushMissesOnlyTheBatch` is what it does promise;
* `close()` can time out and close the journal under a flusher that still has to append;
* after a journal write that failed half-way the next record continues the torn line (`LossBounded` and `ReplayInOrder` are checked, and proved, without failing writes);
* opened with `recover_on_start=False`, an adapter's first acknowledgement covers the previous session's unacknowledged records; it reads its next number before it has the lock, so that an owner that delivers and closes in between leaves acknowledgements that cover the newcomer's numbers;
* an adapter opened with recovery on the path of a live one replaces the file before it asks for the lock and locks the new file: both run, and what the first one journals from then on cannot be recovered, although `JournalLockedError` (sdk/journal.py:61) promises a failure at construction; two compactions at once share one spare file;
* `run_discovery` reads one page of traces; `unclassified_count` counts the first unclassified cluster only; one damaged report row refuses the whole list.

Campaigns, plans and specs:

* an executor that raises discards the execution records of the actions its walk already carried out, so that a retry carries them out again;
* `pause()`, `resume()` and `cancel()` change the resume target before the sink takes the hop, so a failing sink can leave a paused campaign that knows no way back (`HistoryGivesTarget` holds while no append failed);
* `reconstruct()` onto a sink that already holds the history doubles it (`SinkKeeps`);
* the canary gate knows evidence by the plan's id and the action's index: a plan changed and signed again under its id meets the evidence of its predecessor;
* a pinned campaign can no longer be loaded once a deployment protects one of its paths; a mask of a campaign with one entry ignores the entry's artifact type; `NaN` passes as a wall-clock bound;
* a scaffold restore leaves files the candidate added, and a module with `\r\n` line ends can never be restored.

Releases and approvals:

* `create_release` accepts the status `active`, although `api/service.py:154` calls promotion from canary the only route to it through the API, and two overlapping promotions leave two releases active: `MovesLeaveOneActive` is about a move that overlaps with nothing, and says that it repairs both;
* rolling back a release without a prior one leaves its old `active` row in place, so that a restarted server can bootstrap the pointer to a rolled-back release;
* `POST /releases/{id}/rollback` moves the ledger and never the runtime pointer;
* of two overlapping swaps of the pointer one is lost and a version is used twice, although the version is "incremented on every successful swap" (selection/release_pointer.py:36);
* a recursive-improvement claim is issued on nine fields of the request body
  (server/routers/claims.py:22-34) that no experiment, campaign or release is asked about: "the evidence a claim cites
  is the evidence the experiments measured" (selection/recursive_evidence.py:5) holds of a caller that assembles it and is
  ensured of none, and a negative number pins a minimum; `get_claim_service` gives the service no policies, so
  that the server as wired refuses every claim;
* a late decision can set an admitted promotion back to `approved`, and two admissions of one promotion can overlap: both then mint a record, with different identifiers;
* the gate wants exactly two approvals, while the board keeps accepting them: a third one makes a privileged or tier-3 request inadmissible for good;
* fixed session names make a second canary meet the first one's pins; digest coverage counts the reports of earlier canaries, and the wrapper forgets a session's arm before the fleet refuses the pin.

Evaluation and selection:

* the meter "never reports usage above its budget" (eval/budgets.py), but the wall clock does; a live backend charges nothing for output beyond what it asked for;
* `evaluate_promotion` never reads `allowed_authority_tiers`; its success gain is the caller's and is not computed from the paired scores;
* dominance compares shared metrics only and is not transitive, so that a cycle can empty the frontier; mean costs divide by all attestations; a rate of 0.0 stands in for one that is not known;
* `_holm_significance` overwrites a strategy's p-value; verdicts use Bonferroni's intervals and p-values Holm's order;
* a reconcile after a concurrent rebuild or attestation reports drift of a table that is merely behind;
* the nomination ledger is shared by a tenant's campaigns, and an approval whose reason begins with `arm=` changes what is frozen.

Data, memory and registry:

* generation 2's docstring refuses a revoked or expired parent handle, and `rotate_handle` revives it;
* nothing serialises the calls of the memory service, neither a lock nor a key: two overlapping
  proposals that contradict each other both go live, where "contradictions with a live entry in the
  same scope" are to be quarantined at intake (memory/service.py:106-108), and so do two overlapping
  promotions; a lesson proposed, or not yet committed, while `revoke_entry` looks for dependents
  stays live, where "every generalized lesson citing it is quarantined" (memory/service.py:308-309); a
  row can end up with another status than its artifact's last event;
* derived data registered after a purge is never purged; a body stored again after its revocation is readable; a copy put again in a backup tier loses its mark; scheduling again for a later request pushes a deadline back;
* `_assert_acyclic` reports a dependency met along two ways as a cycle; `list_status_events` is "oldest first" by a random id;
* retention's signed hours and days are read by no sweep.

Execution, plugins and security:

* a per-request deadline is not kept once `readline()` has begun, and one stray line shifts every later answer;
* staging expects a `KeyError` where the store raises `LineageError`; a bind error leaks the workspace; the sweep for stale workspaces looks in a directory nothing is staged in (`stage` is called without `parent_dir`), so
  that a workspace `rmtree(ignore_errors=True)` leaves behind stays; the second `communicate()` has no time-out, and `process.kill()`
  reaches the candidate only: a descendant that redirected its output outlives a run reported as `pass`, and one let
  out to the broker may ask the proxy of a later run;
* of a mutating call the scanner checks the first argument (plugins/static_analysis.py:469-471), which for `copy`, `move`,
  `rename` and `replace` is the source, although `analyze_files` speaks of "every statically-resolvable write target" (208-215);
  a function imported by name (`from os import system`) is called unseen, as are the methods of a path object,
  `mode=` by keyword and the names a `from` import takes from a module; relative imports are classified as absolute ones; the bill of materials covers the first layer, and the id in an image's index is signed by nobody;
* a graph that was expanded and pruned may get an edge that points backward, and shrink to one node; a re-passing candidate stays rejected in the optimizer's state; counter-based strategies repeat an id when asked twice;
* the grader's digest is read apart from the run of its tests; a privileged approval carries no digest of its request; validated policy documents stay mutable.

## 6. What is left

Further work, in order: the types of the union; the state of the strategies and distillers, once
their folds are recursive functions; the connection pool under `transition_campaign`;
composite candidates.

### Not modelled

* **Server and read side, command line and client**: HTTP plumbing, argument
  parsing and queries that change no state. What the process shares, the release
  plane of `server/dependencies.py`, is part of `ReleasePlane`.
* **Load and fault harness** (`harness/`): it drives the SDK and measures it, and keeps no
  state of the product.
* **Seccomp, Landlock, namespaces**: set up inside one child process; what they deny
  is a step that cannot be taken.
* **Detectors and redaction** (`dlp/`): patterns over text, one input at a time.
* **Power analysis, bootstrap and p-values as numbers**: properties compare signs and
  orders, and models choose among the values resampling can give.
* **Encryption at rest, record encoding, schema negotiation**: conversions of bytes that
  round-trip; where a digest binds bytes, the model binds what they say.
* **The database pool**: `transition_campaign` opens a second session while it holds the first one's
  connection. Requests that wait for one another this way end in the pool's time-out,
  which is the refusal `Abandon` allows; that they wait is not modelled.

Part by part, the same is said in `PROJECT.json` ("components").
