# A verification project for Creator OS

TLA+ modules, TLC configurations and TLAPS proofs about the parts of Creator OS
that decide who may use an asset, what was handed to ThreadsDashboard, which
worker renders a job, what may be paid to a provider, what became of a paid
generation and which commit the runtime rests on. Every definition is translated from the source; paths
below are relative to the repository root, `CF` stands for
`python_packages/campaign_factory/campaign_factory` and `RF` for
`python_packages/reel_factory/reel_factory`. `PROJECT.json` maps each
definition to the lines it stands for.

Seven families of modules:

| family | component | instances | proofs | runs |
|---|---|---|---|---|
| `InventoryReservations`, refining `AssetLeases` | inventory reservations | `MCInventoryReservations` | `InventoryReservations_proofs` | `reservations_single`, `reservations_pair` |
| `ExportSaga`, refining `DraftHandoffs` | draft export and bridge reconciliation | `MCExportSaga` | `ExportSaga_proofs` | `exports_retries`, `exports_batch`, `exports_lost_answer` |
| `RenderQueue`, refining `RenderJobs` | render queue and its workers | `MCRenderQueue` | `RenderQueue_proofs` | `renders_takeover`, `renders_timely` |
| `PipelineJobs` | pipeline jobs, effect states, reclaim and reconciliation | `MCPipelineJobs` | `PipelineJobs_proofs` | `jobs` |
| `ProviderSpend` | spend authorizations and the cost ledger | `MCProviderSpend` | `ProviderSpend_proofs` | `spend` |
| `HiggsfieldReceipts` | paid generation attempts | `MCHiggsfieldReceipts` | `HiggsfieldReceipts_proofs` | `receipts` |
| `RuntimePromotion` | promotion of a commit into the runtime | `MCRuntimePromotion` | `RuntimePromotion_proofs` | `promotions`, `promotion_interrupted` |

To repeat the work: `tlc -config <run>.cfg <MC module>` and
`tlapm <family>_proofs.tla`, in this directory.

## 1. Inventory

Creator OS is a set of Python packages (and one Node command) run by an
operator and by cron on one machine. Processes share SQLite databases in WAL
mode with a busy timeout (`CF/db.py:97-98`: overlapping writers are expected);
there are no threads inside Campaign Factory. Two systems are external: the
generation provider (Higgsfield), which costs money, and ThreadsDashboard,
which owns drafts, scheduling and publication.

| component | state it keeps | operations | interacts with | what is hard | what makes it correct |
|---|---|---|---|---|---|
| Inventory reservations (`CF/inventory_reservations.py`) | `asset_inventory_reservations`, its immutable events, experiment receipts, origin accounts, assignments | reserve, reserve a pair, expire, release, commit, cancel, publish; rejection and campaign release from elsewhere | called by draft export, creation modes, daily orchestrator, reviews | SELECT and UPDATE are separate statements; a helper commits its caller's transaction; deadlines | one active row per asset, family not shared, ended rows final, evidence true, pairs whole |
| Draft export (`CF/adapters/threadsdash_draft_delivery.py` and neighbours, `CF/state_ownership.py`) | `threadsdash_exports`, the pipeline job, the reservations it carries | prepare, upload, submit with retries, record acceptance, commit reservations, fail, `bridge reconcile` | reservations (calls), pipeline jobs (calls), ThreadsDashboard (HTTP) | lost answers, late requests, crashes between seven commits | no invented acceptance, intent durable, late drafts attached, unknown outcomes kept |
| Render queue (`RF/render_queue.py`, `RF/worker.py`) | `queue_jobs` | enqueue, claim, mark running, heartbeat, finish, recover stale | worker processes through the table; ffmpeg subprocesses | stale leases of live workers, takeover, orphans, one exception ends a whole process | attempts bound renders, only the holder ends a job, every job ends |
| Pipeline jobs (`CF/events.py`, triggers in `CF/db.py`) | `pipeline_jobs`: status and effect state | create, start, complete, fail, mark effect, reclaim, reconcile | every long operation | reclaim of slow workers, effect states and the trigger that guards them | no effect repeated, no job lost, manual hold reachable |
| Provider spend (`CF/provider_spend.py`, `CF/front_generation_stage.py`) | authorizations and cost events | issue against caps, consume, record, settle | provider CLI, generation subprocess | balance read before the transaction, crash between spending and recording | caps never exceeded, an authorization spends once, overspend visible |
| Paid generation (`CF/production_higgsfield_authorization.py`, `RF/higgsfield_production.py`) | attempts, receipts, retained outputs | authorize, submit, poll, download, recover | provider spend, pipeline jobs | a submission whose answer is lost costs money | one paid submission per attempt |
| Daily plan and orchestrator (`CF/daily_orchestrator.py`, `CF/content_director.py`) | orchestrator runs and items | plan, rank, execute, stop | all of the above | cross-run capacity | capacity shared across runs |
| Runtime promotion (`packages/creator_os_core/creator_os_core/runtime_promotion.py`) | journal, backup, receipts, runtime checkout | promote, recover, roll back | git, file locks | interruption between journal writes | old or new runtime, never a mixture |
| Creator governance, QC, approval, review (`CF/creator_governance.py`, `CF/creative_approval.py`, ...) | lifecycle rows, immutable decisions | transitions, approvals, rejections | reservations (release, expire) | the rejection that races a reservation | a rejected asset is not used |
| Source intake, existing media, planning, recreation, variants, winners, stories, Reddit, metrics, incidents | rows and files of their own | sequential operator commands | the above | data processing and I/O | mostly decided by unit tests |
| Reel rendering, QC, prompts, evidence (`RF`) | media and manifests | deterministic media processing | render queue | none of the concurrent kind | out of reach of a model checker |
| Audio Radar, Reference Factory, ContentForge, Pipeline Contracts, scripts | caches, corpora, schemas | scoring, I/O, validation | by file or command | little | tests |

`PROJECT.json` lists all of them under `components`, with what is modelled of
each, and under `hazards` every place in this code where a test would hardly
reach: each at its line, with the property that covers it.

## 2. Plan

Done, in this order, because they decide who may use an asset, what left the
machine, what is rendered, and what is paid for:

1. `InventoryReservations`, refining `AssetLeases`.
2. `ExportSaga`, refining `DraftHandoffs`.
3. `RenderQueue`, refining `RenderJobs`.
4. `PipelineJobs`.
5. `ProviderSpend`.
6. `HiggsfieldReceipts`.
7. `RuntimePromotion`.

The modules meet at narrow points, and each models the side of the other it
depends on: `ExportSaga` has `Reserve` and `EndHold` for the reservations;
`PipelineJobs` has a token per authorization for `ProviderSpend` and one
`Submit` for the provider; an executor of `HiggsfieldReceipts` that the effect
recorder or an authorization stops is one that crashed. There is no composed
instance of 4, 5 and 6: the lane that composes them in the code
(`CF/production_higgsfield_authorization.py`) cannot get past its own first
authorization as it stands (section 10), so there is no reachable joint
behaviour to be faithful to.

Left, in order of worth:

- Abstract specifications for the other families: a budget that `ProviderSpend`
  would implement, a job with one effect for `PipelineJobs`, a paid generation
  for `HiggsfieldReceipts`.
- The run and item states of the daily orchestrator; idempotent ingestion of
  metrics; the hash-chained evidence store of Reel Factory.

## 3. InventoryReservations

### State and actions

`resv` is the table: a function from row identifiers to records whose `status`
is `absent` until an INSERT uses the row. `events`, `receipts` and
`assignments` are the immutable evidence tables, `origin` is
`rendered_assets.origin_account_id`, `hashed` the assets whose perceptual
metadata is stored, `rejected` those with review state `rejected`. `call[w]` is
what process `w` has read and not yet written; `clock` is time in days.

| action | code |
|---|---|
| `ReserveInventoryAsset` | `reserve_inventory_asset`, one BEGIN IMMEDIATE; sweeps overdue rows, returns the active row of a known key, else checks and inserts |
| `EnsurePerceptualMetadata` | `ensure_rendered_asset_perceptual_metadata`, which commits on its own |
| `ExpireInventoryReservations` | `expire_inventory_reservations`, called by `daily_orchestrator.py:426`, `creation_modes.py:464`, the reuse selection and `asset reservations reconcile --apply` |
| `ReadForRelease`/`WriteRelease` and the same for commit, cancel, publish | the SELECT with its early returns, then the UPDATE and the event |
| `ReadPairReceipts`, `ReservePairWhole`, `ReservePairFirst`, `ReservePairSecond` | `reserve_experiment_pair`; the transaction is whole when the second asset is hashed and falls apart when it is not |
| `RejectAsset`, `CampaignRelease` | the operator's review and `transition_campaign`, each one transaction |
| `Abandon` | a process that dies, or an exception and its rollback |

`Permitted` is the trigger `inventory_reservations_transition_guard`; the
partial unique indexes appear as `AssetTaken` and `KeyStored`, which an INSERT
must not meet. `Eligible` and `UniquenessConflict` are
`evaluate_assignment_eligibility`, `_pair_scoped_eligibility` and
`inventory_uniqueness_conflicts`. With `Overlap = FALSE` no other process runs
while one is between two statements; with `TRUE` they interleave freely, which
is what the busy timeout is there for.

Things a reader may stumble over: a key that is active for another asset
returns that row, as the code does; release is called with `released` and
`pending_only` (draft delivery), `released` (creation modes) and `cancelled`
(CLI); `publish_inventory_reservation` and `cancel_inventory_reservation` have
no caller in the repository but tests and the operator's Python, and are
modelled as operations any process may call. `now` is read a few statements
before BEGIN in the code and at the step in the model: no action of another
process can use the difference, because the sweep of an earlier `now` expires
less. The configurations keep a row's lifetime no longer than the cooldown, as
the defaults do; a lifetime beyond the cooldown would let two accounts hold one
family.

### Properties

| property | what could go wrong |
|---|---|
| `OneActivePerAsset` | two holders of an asset after a stale update and a new reservation |
| `FamilyExclusive` | siblings held by two accounts through the pair exception, a reused key or a row that ended and was replaced |
| `EvidenceIsTrue` | an immutable event claims a transition that did not happen (processes take turns) |
| `EvidenceOfLiveRowsIsTrue` | the same with any overlap: an event may be false only of a row that had ended before the write |
| `RejectedNeverHeld` | a rejection races a pair whose second asset it takes, between its checks and its transaction |
| `NoCrossAccountReuse` | two accounts publish one family |
| `PairAllOrNothing` | rows of half a pair, rows without their receipts, receipts without their rows, or a pair assigned twice |
| `ReservationsEnd` | a row that holds its asset for ever |
| `ImplementsLeases` | refinement of `AssetLeases`: a new holder is always a row that never held anything |
| `EndedRowsStayEnded` (proved, in no run) | a late release relabels or a late commit resurrects an ended row |

`OnlyPendingIsReleased`, `OnePublicationPerReservation` and
`UnidentifiedAssetsKeepOrigin` are stated in the module and in no run; section
10 says of the first two when the code breaks them, section 11 under which
condition the last is proved.

### Runs

| run | instance | result |
|---|---|---|
| `reservations_single` | one process at a time, three rows, a pair whose second asset has no metadata, a third sibling beside it | `FamilyExclusive`, `NoCrossAccountReuse`: the exception made for a pair is not widened; `EvidenceIsTrue` |
| `reservations_pair` | a hashed pair and a key shared between assets; everything else, rejections included, interleaves with the one caller; fair sweep | type, `OneActivePerAsset`, `PairAllOrNothing`, `RejectedNeverHeld`, `EvidenceOfLiveRowsIsTrue`, `ImplementsLeases`, `ReservationsEnd` |

Bounds: `MaxRows` rows are ever inserted and the clock stops at `MaxClock`. Two
rows are what a takeover of one asset, or two siblings, need; the third lets
the row of an ended pair, or of a published sibling, be followed by another. Two days
with a lifetime and cooldown of one give rows before, at and after their
deadline and uses inside and outside the window. Two processes suffice for
every race here, since each property relates at most two rows and every call
holds one; the theorems remove the bound for the ones that are proved.

Fairness: time passes and the sweep runs, because the daily orchestrator, the
reuse selection and every reservation call it. No other call has to start or
to finish.

## 4. ExportSaga

### State and actions

`exports` is `threadsdash_exports` (status, asset set, reservations carried,
whether an acknowledgment is stored, order of creation), `jobs` the pipeline
job of each export, `holds` the status of each reservation row, `run[w]` the
program counter of one `export_threadsdash`, `inflight` and `drafts` the
network and the dashboard, `todo` the rows a bridge pass still has to visit.

Every commit of the handoff is an action: `StartExport` (job, export id and the
payload with the active reservations), `PrepareExport`, `Submit`,
`SendAttempt`/`AttemptFails` (the loop of `_signed_json_request`),
`AskForPostIds`, `RecordAcceptance`, `CommitHold` per reservation,
`FinishExport`; on failure `ReleaseHold` per reservation, `CloseExport`,
`FailJob`, in the order of the except block. `Crash` may take any of them
short. `Fail` carries what the except block decides from: refused, unknown or
already accepted. `Reserve` and `EndHold` are the reservation service as the
handoff sees it.

External, modelled from how the code uses them: the dashboard keeps one draft
per idempotency key and never forgets it (`Ingest`), may refuse
(`RefuseRequest`), and the network may lose an answer or deliver a request
after its sender gave up. The answer may be broken: not JSON, without an
acknowledgment, or a connection closed while it is read.

`BridgePass`, `BridgeNamed`, `BridgeAttach`, `BridgeReports` and `BridgeAborts`
are `bridge reconcile`, oldest row first. A visit is one step: the dashboard
never forgets, so its answer is as good at the write as at the read.

The SELECT and the UPDATE of a hold are one step here; `InventoryReservations`
takes them apart.

### Properties

| property | what could go wrong |
|---|---|
| `AcceptedHasDraft` | an acceptance the dashboard never made, after retries, crashes and bridge passes |
| `SubmittedBeforeSent` | a crash leaves an external effect without a row that names it |
| `RejectedHoldsNothing` | a crash in the failure path leaves a rejected export holding an asset |
| `SucceededMeansCommitted` | a job that succeeded with a reservation still pending |
| `ImplementsHandoffs` | a failure after the acceptance, or a later pass, takes it back; a rejected row is reopened, a reservation is committed for an export that was not accepted |
| `DraftsAreAttached` | a draft whose answer was lost is never found again |
| `RejectedHasNoDraft`, `AcceptedIsCommitted`, `UnknownKeepsReservation`, `NoExportWhileUnknown` | documented rules the code does not keep: section 10 |

`DraftHandoffs` is what a reader of the table, the jobs and the reservations may
rely on; it knows no workers, attempts, causes or passes. The refinement maps
`submitted` and `acceptance_unknown` to one claim, `open`; the drafts to the set
of exports that have one; the jobs to the set of those that succeeded. A claim
is prepared, then open, then accepted (with a draft) or rejected (with no
reservation pending), and a rejected one may still be accepted when its draft
turns up; `Keep` commits a reservation of an accepted export and nothing else
does; `Complete` needs every reservation dealt with. `AcceptedStays` (proved, in
no run) is one consequence.

### Runs

`exports_retries`: one process after another, two attempts each, every loss and
delay of the network, crashes and a fair bridge. `exports_batch`: two exports
one after another over two assets with two reservations, the bridge between
them; `BridgeOverlaps` is FALSE there because `set_export_state` has no guard
and a bridge that runs beside a failing exporter is overwritten, which no
document forbids (hazard list). `exports_lost_answer` is the smallest instance
of the first row of section 10.

Bounds: every export id is used once; two exports are what a repeated export, a
shared reservation or an old row before a new one need; two attempts are the
first and a retry (the code's three add only more of the same); two
reservations make the commit and release loops partial.

Fairness, for `DraftsAreAttached` only: the operator keeps running the whole
bridge (strong fairness, because calls for one export may be in between), a
pass makes progress, and the owner API does not fail every request for a draft
it holds (strong fairness on `BridgeAttach(e)`). Exporters and requests owe
nothing. An export may still end as rejected, which `DraftsAreAttached`
allows; that such an export has no draft is the separate, violated
`RejectedHasNoDraft`.

## 5. RenderQueue

### State and actions

`rows` is `queue_jobs`, `procs` and `slots` the worker processes and their
`_run_one` coroutines, `child` the subprocess of each attempt, `stops` a bound.
Each method of `RenderQueue` is one compare and set in one transaction, hence
one action: `Enqueue`, `RecoverStale`, `ClaimJob`, `MarkRunning`, `Heartbeat`,
`FinishJob`. `StartWorkers` and `EndRound` are the loop of `run_workers`;
`Launch` and the outcome come from `_run_one`; `LeaseLost` is a compare and set
that finds another holder and raises through `gather`; `Stop` is every other
end of a process. `Unwind` is what both do: all workers of the process are
gone, the rows stay as they are, and of the subprocesses a nondeterministic
subset is killed (all of them when `KillsChildren`), since that depends on
which transports the closing event loop still reaches. What the remaining
coroutines may still do between a peer's exception and the end of the loop is
left out: it is a prefix of what they do anyway.

Abstractions: `age` counts heartbeat periods since `heartbeat_at` instead of an
absolute clock and stops one beyond the limit; `created` is the order of
`created_at`, with ties for rows of one second, broken by the random job id;
`claim` and `mark_running` of a coroutine are not interleaved with its
process's other coroutines, because no await separates them, but are with other
processes; the SELECT of `finish` is merged with its UPDATE, which rechecks the
same condition; `queue_job_events` rows are written in the transaction they
record and left out. The attempt number in `slots` is not in the code: it tells
the leases of one job apart, and nothing in a guard reads it but the choice of
the subprocess. A process that is started again reuses its ids in the model; in
the code they are fresh, and a process that is down does nothing, so nobody can
confuse them.

### Properties

| property | what could go wrong |
|---|---|
| `EndsForAReason` | a worker that lost its lease ends the job of the one that has it; a job is interrupted with attempts left |
| `ImplementsJobs` | a takeover or a crash renders without paying an attempt, so a job that kills its worker is retried for ever; a job ends with the result of a render other than its last, or twice |
| `OneRenderPerAttempt` (proved, in no run) | the first half of it as an invariant |
| `EndedJobsStayEnded` (proved, in no run) | a late finish, a recovery or an enqueue rewrites an ended row |
| `OneRenderAtATime` | two subprocesses write the output of one job at once |
| `JobsSettle` | a claimed job whose worker died is never recovered, or an exhausted one never ends |

`RenderJobs` is the queue as whoever enqueued a job sees it: a state (`queued`,
`claimed` and `running` are one, `open`), the attempts charged and the render
each charge paid for. `Begin` has no condition on the state, because a late
worker may launch its subprocess after the job was requeued, interrupted or even
finished by another; `Conclude` takes the result of the last charge only;
`Interrupt` gives up, in one sweep, jobs that have no charge left. Claims,
leases, heartbeats, requeues and the clock are stutters.

`OneRenderAtATime` does not hold of the queue alone: a live worker that misses
its heartbeats, or a subprocess that outlives its process, renders beside the
next holder. It is checked and proved under `Timely` (no live worker stays
beyond `stale_after_sec` without a heartbeat, although the wait between two is
at most five seconds) and `KillsChildren`; the point is that these suffice.

### Runs

`renders_takeover`: two processes with a worker each, two jobs, two attempts,
one stop, no assumption on heartbeats or subprocesses. `renders_timely`: the
same with both assumptions, and the fairness below.

Bounds: two attempts are the first and the last; a stale limit of one period
has ages below, at and beyond it; one stop beside any number of lost leases,
which end a process in the same way; a process that stops takes all its workers
with it, so one worker per process shows what a sibling's exception does to a
job (the theorems have any number of workers). Job symmetry is used in the
safety run only.

Fairness, for `JobsSettle` only: the event loop runs every ready worker,
subprocesses exit, time passes and the operator starts a process again after it
ended (there is no supervisor in the repository; without that nothing settles
the job of a crashed process). Heartbeats are not fair. `Timely` is needed:
without it two processes may each stall for 300 s between `claim` and
`mark_running`, two statements with no await between them, and take the unpaid
claim from one another for ever, which TLC finds at once.

## 6. PipelineJobs

### State and actions

`rows` is `pipeline_jobs` (status, effect state, whether an external id is
stored, attempts, whether `updated_at` is past the reclaim threshold), `procs`
what each process is doing, `snapshot` the rows an open reclaim pass has
selected, `tokens` and `granted` the spend authorizations of a job, `provider`
and `operations` what the provider made of it.

| action | code |
|---|---|
| `Create`, `Start` | `create_pipeline_job`; `start_pipeline_job`, a compare and set whose loser raises |
| `Consume` | the authorization of a paid job is consumed once |
| `MarkRead`, `MarkWrite` | `mark_pipeline_effect_state`: the transition is checked on a row read outside the transaction, the write is guarded by the trigger only |
| `Submit`, `ProviderEnds` | the provider's command; its answer may be lost |
| `Finish` | `finish_pipeline_job` |
| `Raise`, `FailRead`, `FailWrite` | any exception, then `fail_pipeline_job`, which decides on the row it read |
| `Age`, `ReclaimRead`, `ReclaimWrite` | `reclaim_stale_pipeline_jobs`: selection, then one transaction with a compare and set per row |
| `Reconcile`, `AuthorizeRetry` | `reconcile_pipeline_external_effect`, `authorize_pipeline_retry` |
| `Crash` | the process stops between any two of these |

`TriggersAllow` is the pair of triggers of `CF/db.py`; `EffectTransitions` the
table both the trigger and the repository use. `Policy` is `recovery_policy`.

`Hasty` names the jobs recovery may act on while a process still works on them.
A local job may be hasty: a render that runs longer than the threshold is
reclaimed under its worker. A paid job may not, in the run and in the theorems:
its whole duration is bounded by the provider's timeouts, which are minutes,
the threshold is hours, and an operator reconciles what a process gave up. The
assumption is needed, see section 10.

### Properties

| property | what could go wrong |
|---|---|
| `OneEffectPerJob` | a reclaim, a reconciliation that proved no effect, or a retry starts a second paid operation |
| `EffectsAreNotWrittenOff` | a stale read in `fail_pipeline_job`, or a reclaim, ends a job while the provider may be running it |
| `ReclaimFailsForOneReason` | one row whose write is refused keeps a reclaim pass from every other; the property pins down the only kind of row that can |
| `NoEffectIsTrue` (proved, in no run) | a job is called free of effect although it has one |

Run `jobs`: a local job, reclaimed under live workers, and a paid one, two
processes, three starts and two authorizations. Three starts let a row be
started, requeued, and taken up again after `MaxAttempts`; two authorizations
are the first and an authorized retry.

## 7. ProviderSpend

### State and actions

`auths` is `provider_spend_authorizations` by request fingerprint, `ledger` the
`ai_cost_events` row of each, `incidents` the overspend incidents on manual
hold, `procs` the callers, `calls`, `charged` and `balance` the provider. Two
lanes share the module: provider credits (`CF/provider_spend.py`) and dollars
(`CF/all_provider_cost.py`).

| action | code |
|---|---|
| `Price` | what is read before BEGIN IMMEDIATE: the clock and the provider's balance |
| `Issue` | `issue_provider_spend_authorization`: limits, reservations and balance, one transaction |
| `Resume`, `Cancel` | a batch that loads what it issued before; the release of an unconsumed authorization |
| `ReadClock`, `Consume` | the clock is read, the write lock waited for, the authorization consumed; the dollar lane enters its pending cost row in the same transaction |
| `Call`, `ProviderCharges` | the provider's call, and its charge at any later time |
| `Record`, `RecordRecovered` | the worker's evidence and `record_ai_cost`, once or again, before the charge or after it and with its cost or without; a job that cost more than the quote becomes an incident |
| `Reconcile`, `ReconcileLater` | `reconcile_provider_cost`: exact, unknown, none, or later with a refund |
| `GiveUp` | a refusal of anything that only refuses, an error, or the end of the process |

`Limits` are records of the requests they cover, a period and a cap, which
stands for the limits per day, month, creator and campaign at once. `stale` is
a history variable: the requests that were issued on a balance, or consumed by
a clock, which no longer held. One execution may have run several provider jobs
(`JobsOf`): its evidence is one event per job, each compared with the whole
quote, so up to `MostUnnoticed` may be charged without an incident.

### Properties

| property | what could go wrong |
|---|---|
| `WithinCaps` | two issuers, an expiry, a settlement for less, or a resumed batch reserve more than a limit allows |
| `BalanceFloor` | what is outstanding, charged at its quote, takes the balance below its minimum; excepted are an overrun, a stale balance or clock, and evidence of unknown cost, which drops a reservation before its charge |
| `PaidOnce` | a repeated or resumed batch calls the provider twice for one authorization, or calls it before the ledger knows |
| `KnownCostsAreTrue` | a lost answer, a late cost, a refund or repeated evidence makes the ledger call a cost known that was not charged, or hides an overspend |

Run `spend`: two processes, two requests in each lane, a limit per window and one
without end, and four instants, which give two windows and an authorization
that expires, is replaced and is consumed late. Two requests are what competes for a cap; of
each lane one costs more than quoted in some behaviours, and one credit request
may run two jobs. `Issuable` bounds which requests one behaviour begins: those
of one lane, or one of each, because the lanes share no row, limit or balance.
The theorems of section 11 have no such bound.

## 8. HiggsfieldReceipts

### State and actions

`receipts` is the receipt file of each attempt, `pc` its executor,
`temporary`, `output`, `quarantined` and `setAside` the files, `inflight` and
`generations` the provider. One action per write of
`execute_higgsfield_production`: `Begin`, `StartSubmission`, `Submit`,
`IdKnown`, `Ambiguous`, `Poll`, `Retain`, `WriteDownloaded`, `LookAgain`,
`Rename`, `WriteRetained`, `Finalize`, and for a rejected result `Reject` and
`RecordRejected`, which are two writes; `Recover` is
`_recover_higgsfield_generation` (by id, or by the one job of the provider's
history that looks like the submission), `ResumeLocal` is
`resume_higgsfield_local_output`. A `Crash` may come between any two.

The status of a receipt is the executor's word or the provider's: `IdKnown`
stores what the creation answered (or `created`), `Recover` what the history
says of the job it matched (or `reconciled`), `Poll` what the wait ended with
(or `poll_incomplete`, or `completed_without_result_url`). The provider's words
are abstracted to `in_progress`, `completed` and `failed`, so a receipt can be
`completed` by the provider's word before anything was downloaded; only `final`
(`finalOutput`, written last) says that an attempt ended.

A file's bytes are named by the generation they came from. The clock counts in
windows of the history search; no submission is in flight for a whole window.
Attempts at one output path are executed one after the other (`Free`), as the
operator's commands do; nothing in the code locks the path.

### Properties

| property | what could go wrong |
|---|---|
| `SubmittedOnce` | a rerun after a crash or an ambiguous answer pays again |
| `BytesAreKept` | a rerun, a clash at the output path or a second attempt overwrites what was paid for |
| `EndedReceiptsAreTrue` | a final output is bytes of another generation, of one that failed, or one with a soundtrack it must not have; a receipt is rejected before its output is out of the way |
| `KnownGenerationsSettle` | an attempt whose generation is known never gets its final output and never fails |

Run `receipts`: two attempts at one output with the same prompt, two faults.
Two faults are a crash and a crash of the recovery; look-alike attempts are
what the history search has to tell apart. Fairness, for
`KnownGenerationsSettle` only: an executor that lives goes on, the provider
ends what it accepted, and the attempt is executed again (strong fairness,
because executors of its sibling may be in between). The exceptions `InTheWay`
and `Stuck` are real, see section 10.

## 9. RuntimePromotion

### State and actions

`runtime` is the checkout, `pc` and `attempt` the holder of the lock,
`journals` and `receipts` the two directories, `debris` the directories a
killed write left its temporary file in. `passed` and `latest` are history.

`Lock` takes the runtime's lock and starts the recovery (`RecoverCommitted`,
`RecoverCheckout`, `RecoverRollback`, `Recovered`:
`_recover_incomplete_transactions`); `Prepare`, `Move`, `MarkMutated`,
`Verify`, `MarkPending`, `WriteReceipt`, `Commit` are the transaction;
`Rollback`, `MarkRolledBack`, `Refuse` the failure before the receipt and
`Undo`, `Unlink`, `MarkUndone` the one after it. `Raise` is an exception at any
write, `Crash` a kill between steps, inside a checkout (which may leave the
tree dirty) or inside the replacement of a file.

### Properties

| property | what could go wrong |
|---|---|
| `RestsOnCommitted` | after any sequence of failures and recoveries the runtime is at a commit no promotion committed |
| `CommittedIsTrue` | a recovery completes a promotion that was never verified or has no receipt |
| `OpenPromotionsSettle` | an interrupted promotion is never settled |

Run `promotions`: three promotions, two commits, two faults. Two faults are a
kill and a kill of its recovery; the third promotion is the one that finds
what they left. Fairness: a holder of the lock goes on, and operators try again
until the recovery is let through. `promotion_interrupted` is section 10.

## 10. Where the code and its documents disagree

Two disagreements are kept as runs that TLC ends with a counterexample;
`PROJECT.json`, `findings`, quotes the lines.

| run | what the code does |
|---|---|
| `exports_lost_answer` | an export whose draft exists is written down as rejected when the answer is broken instead of missing |
| `promotion_interrupted` | a temporary file of a killed journal write is read as a journal, and no promotion gets past it |

The models show more of them on other instances, or the reading did; no
configuration is kept for each.

Reservations:

- `ensure_rendered_asset_perceptual_metadata` commits in the middle of a pair
  that is reserved "atomically" (`CF/inventory_reservations.py:129`); half the
  pair stays, and the pair is refused as incomplete from then on
  (`PairAllOrNothing` on an instance whose second asset is not hashed). With
  two callers of one pair it fails too: the receipts are read before the
  transaction, and four are written.
- A pending-only release frees a row another process has committed since it was
  read (`CF/inventory_reservations.py:1018`, `OnlyPendingIsReleased`).
- With overlapping processes `EvidenceIsTrue` fails, because the compare and set
  of a commit, cancellation or publication leaves a row as it is that ended since
  it was read, and the event is inserted all the same; of every other row it is
  true (`EvidenceOfLiveRowsIsTrue`). `OnePublicationPerReservation`
  fails, because two confirmations with different media ids both read a committed
  row.
- `RejectedNeverHeld` fails when processes overlap and the second asset of a pair
  is not hashed: the commit in the middle lets a rejection in, and the eligibility
  of the second asset no longer looks at the review state. With hashed second
  assets it holds whatever overlaps.

Exports:

- An acceptance the bridge records leaves the reservation pending, to be
  expired by the next sweep (`AcceptedIsCommitted`).
- A second call makes a new export id without looking for one of unknown
  outcome (`NoExportWhileUnknown`), and its failure path releases the
  reservation the first still needs (`UnknownKeepsReservation`).
- An answer without an acknowledgment is dereferenced outside the try block
  (`CF/state_ownership.py:108-122`) and ends the pass before the later rows:
  `DraftsAreAttached` therefore excepts exports behind such a row.
- An exporter that fails beside a bridge pass overwrites the acceptance the
  pass attached (`ImplementsHandoffs` with `BridgeOverlaps`).

Renders: two processes started in one second have equal worker ids, and one
finishes the attempt of the other (`EndsForAReason` without the assumption on
`Started`).

Jobs:

- Reclaiming a stale job whose effect state is `AUTHORIZATION_CONSUMED` writes
  `AMBIGUOUS` (`CF/events.py:887`), a transition the trigger aborts
  (`CF/db.py:880`); the whole pass is rolled back with it, and so is every
  later one (`ReclaimDealsWithAll`, and the reason
  `ReclaimFailsForOneReason` names).
- With `Hasty` containing a paid job, `EffectsAreNotWrittenOff` fails: two
  reconciliations by an operator, between the read and the write of a failing
  process, give the row a state the write was not meant for.

Spending:

- The balance is read (`CF/provider_spend.py:267`) before BEGIN IMMEDIATE
  (`:312`): reservations that are charged and recorded in between are counted in
  neither, and two issues that each fit take the balance below its minimum.
  `BalanceFloor` excepts such requests, and is refuted without the exception.
- Evidence of unknown cost takes a reservation out of
  `_active_provider_reservations` (`CF/provider_spend.py:765-799` asks only
  whether a cost event exists, `:625-660` writes one with or without an amount),
  so another issue may pass before the provider has charged the first, while
  `docs/operations/creator_os_master_operating_spec.md:128` says "Unknown cost is
  not zero." `BalanceFloor` excepts it, and is refuted without the exception.
- The jobs of one execution are each compared with the whole quote
  (`CF/provider_spend.py:629`), so an overspend spread over several of them
  raises no incident; nor does any where the table of incidents is missing
  (`:693-700`). `KnownCostsAreTrue` says what remains (`MostUnnoticed`), with the
  table there.
- The clock of a consumption is read before the write lock is waited for (up to
  the 30 s of `packages/creator_os_core/creator_os_core/sqlite.py:17`,
  `CF/all_provider_cost.py:233`); an authorization whose room has been given to
  another is consumed. `WithinCaps` excepts it.
- The lane of `CF/production_higgsfield_authorization.py` does not reach a paid
  call: `:399` passes a row without `attempt_id`, `:480-497`, `:1279` and
  `:1395` one without `effect_state`, and the batch check leaves a transaction
  open which makes the issue raise `provider_spend_issue_requires_clean_transaction`.
  This is why the order of marks in `PipelineJobs` is taken from the effect
  recorder and not from that lane.

Paid generation:

- A crash between the quarantine of a result with a soundtrack and its receipt
  (`RF/higgsfield_production.py:1261`) leaves a receipt that every rerun
  downloads for again and then cannot quarantine, because a file of that name
  is there; two crashes in the window of the download do the same
  (`InTheWay`).
- A second attempt at an output path quarantines the completed output of the
  first.
- Attempts with one model, prompt, duration and seed can bind the same
  generation, although the docstring says "Bind one ambiguous submission to one
  exact recent provider job".
- A crash with the receipt at `ready_to_submit` is never recovered from, though
  nothing was submitted.
- A receipt can be left with a terminal status and no final output: the history
  item that a lost submission matches may say `completed`
  (`higgsfield_production.py:819`; `tests/test_higgsfield_production.py:1155-1198`
  has one that does), as may the creation's answer (`:747`), and a rejected
  result is written twice (`:1264-1275`, then `:1318-1360`). If the executor ends
  there, every later execution raises
  `higgsfield_completed_receipt_output_missing` (`:779-786`), and the lane's
  recovery passes over a receipt that names no output
  (`production_higgsfield_authorization.py:1085-1086`), so that it may authorize
  another attempt at the same output. `CREATOR_OS_SYSTEM_MAP.md:889` says
  "Exactly one match is bound to the original attempt and resumed." `Stuck`
  excepts it from `KnownGenerationsSettle`.

Promotion:

- With two state roots `RestsOnCommitted` fails: the recovery reads the
  journals of its own root only, while the runbook says "alternate state roots
  cannot race the same runtime".
- A receipt that says `promoted` can stay beside a journal that says
  `recovered_rollback`.
- The environment is not rebuilt after a rollback
  (`runtime_promotion.py:2907-2936`).
- A temporary file left among the receipts makes every later promotion refuse,
  as one among the journals does.

## 11. What is proved

TLC shows a property on the instances above; the theorems below hold for every
value of the constants allowed by the named assumptions (`BoundsAssumption`,
`IdentityAssumption`, `PairAssumption`; `ExportAssumption`; `QueueAssumption`;
`JobsAssumption`; `SpendAssumption`; `ReceiptsAssumption`;
`PromotionAssumption`), which TLC evaluates on each run.

**Reservations** (`InventoryReservations_proofs`). Every step changes the table
by `TableStep`: rows only advance (absent, active, ended), a new row is
inserted where none was, and what was exclusive stays exclusive. The lemmas
take the operators apart: a sweep, a rejection, a release *relabel* active rows
as ended ones (`RelabelledAdvances`), an insert keeps exclusiveness because
`AssetTaken` was evaluated in the same transaction (`ReservedFacts`), a pair is
two inserts (`PairStep`). `TableOfStep` has one case per action; a stale update
is an advance because of the trigger. From it:

- `TypeCorrect`: `TypeOK`.
- `NeverPromisedTwice`: `OneActivePerAsset`.
- `EndedStayEnded`: `EndedRowsStayEnded`.
- `ReservationsAreLeases`: `InventoryReservations` implements `AssetLeases`.
  The holder of an asset is the one active row that exclusiveness gives, and a
  row that becomes a holder was absent before.

`InventoryReservations_apart_proofs` looks at the same steps for what they
insert. Every step lets rows last (`Lasting`: what identifies a row never
changes) or makes one `Reservation`, or two for a pair (`RowsOfStep`); a
reservation sweeps and then makes one `Insertion`, whose checks are facts about
the table it extends. `Current` says that, with `Overlap = FALSE`, one call at a
time is between its statements and what it has read still holds.

- `FamiliesStayApart` (`FamilyExclusive`), also when processes overlap: no row is
  dated after now, so a near row is inside the window the check looks at.
- `PairsAreWhole` (`PairAllOrNothing`, both rows and both receipts or none) assumes
  that the second assets of pairs have
  their metadata (`SecondsHashed`, so that the transaction of a pair is one) and
  that no pair is reserved by two calls at once (`OneCallPerPair`, which
  `TurnsKeepPairsWhole` derives from taking turns or from a single process); without
  either it fails (section 10). `PairsWhole` says that a call which has checked a
  pair has found no receipt and there still is none, and that the keys of a pair
  are in the table exactly when its receipts are.
- `EvidenceHolds` (`EvidenceOfLiveRowsIsTrue`) assumes nothing of overlaps. What a
  process still knows of the row it read (`Known`) is enough: the row is no longer
  fresh, and one read as committed or published stays so or ends.
- `RejectedIsNeverHeld` (`RejectedNeverHeld`), also for any overlap, assumes
  `SecondsHashed`; `SecondsReady` keeps the split transaction away, and the checks
  of every other reservation run inside its transaction.
- `UnidentifiedStayAtOrigin` (`UnidentifiedAssetsKeepOrigin`), for any overlap,
  assumes that the second asset of a pair has an identity (`SecondsIdentified`),
  because `_pair_scoped_eligibility` drops the origin check for one that has none.
- `FamiliesArePublishedApart` (`NoCrossAccountReuse`) assumes `~Overlap` and
  `Sheltered`: lifetimes of
  at most the cooldown and a day (the defaults are 7 and 14 days; a caller may ask
  for more), and pairs whose second asset has an identity, because
  `_pair_scoped_eligibility` drops the origin check for one that has none.
  `Book` relates active rows, publications, origins and the clock: two active
  rows of a family are a pair, and an active row is a pair with, or lies a whole
  cooldown after, each publication of its family.

**Exports** (`ExportSaga_proofs`). `AcceptedHasDraft` is not inductive: it needs
to know that an exporter about to record an acceptance has a draft, and that a
draft belongs to an export nobody else runs. `Inv` adds `Owned` (a running export has one worker
and no row before `prepare_export`), `Recorded` (who sends, and what is in
flight or drafted, has a row past `prepared`) and `Acknowledged` (points,
causes and stored acknowledgments that presuppose a draft have one).
The actions are grouped by what they write: a move of a worker (`Moved`), a
write of a row (`Written`), a stop, the dashboard, the bridge.

- `TypeCorrect`, `NoInventedAcceptance` (`AcceptedHasDraft`),
  `IntentIsDurable` (`SubmittedBeforeSent`).
- `RejectedLetsGo` (`RejectedHoldsNothing`) and `SuccessIsComplete`
  (`SucceededMeansCommitted`). `Settled` says that a worker which releases or
  commits has only the reservations left that may still be pending (`Tidy`), and
  that rejected rows and succeeded jobs carry none (`Honest`); a reservation that
  has left `pending` never returns to it (`HoldsAdvance`), so neither a crash
  between two releases nor another process undoes the part that is done.
- `HandoffKeepsItsContract` (`ImplementsHandoffs`) assumes `~BridgeOverlaps`,
  without which it fails (section 10): the bridge takes turns with exporters
  (`Turns`), so the place of a worker, and the cause of its failure, determine
  what its row says (`InStep`). With `Settled`, each write of a row (`RowWrites`),
  step of a reservation, delivery and visit of the bridge is an action of
  `DraftHandoffs`, and every other step is unseen.
- `AcceptancesStay` (`AcceptedStays`) follows from that contract.

**Renders** (`RenderQueue_proofs`). `Inv` is type correctness with `Working`
(the attempt of a worker between `mark_running` and its end is one the row has
paid for, and its subprocess exists if and only if it was launched),
`OwnAttempt` (no two workers share an attempt of a job), `OneRenderPerAttempt`
itself and `Room` (a claimed job has an attempt left). Most steps charge
nothing (`Uncharged`) and are done by one lemma; `MarkRunning` and `Launch`
have their own.

- `TypeCorrect`, `AttemptsPayForRenders` (`OneRenderPerAttempt`),
  `EndedJobsAreFinal` (`EndedJobsStayEnded`): without further assumptions.
- `OutcomesAreTheHolders` (`EndsForAReason`) assumes that no two processes
  start in the same second, without which it fails (section 10).
  The invariant added (`Holder`) says that a worker which passes the check of
  `finish` works on the last attempt of the row.
- `QueueKeepsItsContract` (`ImplementsJobs`) under the same assumption. One lemma
  per operation names the action of `RenderJobs` it is: `EnqueueAccepts`,
  `MarkCharges`, `LaunchBegins`, `FinishConcludes` (by `Holder`, the exit a worker
  reports is the one of the last charge), `RecoveryInterrupts`, `ExitsEndRenders`;
  what else the queue does is unseen (`StepUnseen`).
- `OneRenderWhenTimely` (`OneRenderAtATime`) also assumes `Timely` and
  `KillsChildren`. The invariant says that a live subprocess is rendered by a
  worker (`LiveIsRendered`), that a worker in the middle of a job still has its
  lease (`LeaseKept`) and that a process that is down renders nothing
  (`IdleWhenDown`).

**Jobs** (`PipelineJobs_proofs`). All assume `Attended`: no paid job is hasty.
`Inv` says what each place of a process allows it to have read or to write
next (`ProcOK`); that a row a pass has selected is unchanged unless somebody
refreshed it (`Selected`); of a paid job, that its operation at the provider
and its effect state agree (`PaidRow`) and that the one process which holds it
knows its row (`Holder`); of any other job, that it never had an effect
(`LocalJob`). Each action has a lemma; local jobs and paid jobs are taken apart
because the former may be written under their workers.

- `TypeCorrect`, `PaidForOnce` (`OneEffectPerJob`), `NoEffectHolds`
  (`NoEffectIsTrue`), `NothingWrittenOff` (`EffectsAreNotWrittenOff`).
- `PassFailsForOneReason` (`ReclaimFailsForOneReason`): a pass selects rows that
  have not ended (`SelectsLive`), and of a row nobody wrote since, the triggers
  allow what the pass writes unless it is a paid job whose authorization was
  consumed and nothing submitted (`WriteAllowed`, from what `PaidRow` and
  `LocalJob` say of the others).

**Spending** (`ProviderSpend_proofs`). `Related` ties an authorization's status
to its calls, its charge and its cost row; `Spending` says what a process past
the consumption may rely on, above all that it is the only one.

- `TypeCorrect`, `PaysForOneCall` (`PaidOnce`), `KnownCostsHold`
  (`KnownCostsAreTrue`).
- `LimitsHold` (`WithinCaps`) and `FloorHolds` (`BalanceFloor`), for any finite set of
  requests and any amounts. The sums are folds over a finite set; that the
  recursion behind them has one solution is shown from a smallest set on which it
  would fail (`SmallestSet`, `SumRecursion`, `SolutionsAgree`), and gives that a sum
  is an integer, that an element can be taken out (`SumTakeOut`) and that it is
  monotonic (`SumMonotonic`). `CapsKept` states the caps for the window of
  every instant and not only the current one, because an issue decides by a clock
  that was read before its transaction (`Priced`); an issue adds one amount that was compared with
  the room left, and every other step moves a request from reserved to recorded
  or out of the sum. For the floor, what is outstanding (`Exposed`) shrinks with the
  charge the balance shrinks by; `Doubtful` requests are those the
  property excepts.

**Paid generation** (`HiggsfieldReceipts_proofs`). For each attempt and each place
of its executor: how often the provider was asked (`Once`), whose bytes are
staged or noted (`Own`), where they are (`Kept`, `Located`), that the final
output is written last (`Final`), and what an ending receipt says of the
soundtrack (`Silent`). A step of one attempt keeps what
holds of the others because it moves an output only into quarantine
(`Guarded`) and takes nothing back that the provider has said (`Monotone`).

- `TypeCorrect`, `NeverPaidTwice` (`SubmittedOnce`), `NothingPaidForIsLost`
  (`BytesAreKept`), `EndedReceiptsTellTheTruth` (`EndedReceiptsAreTrue`).

**Promotion** (`RuntimePromotion_proofs`). `Recorded` and `Holder` tie the
journal to the place of the lock's holder, for any roots; `Rest`, with one root
(`OneRoot`), says that the commit to return to is the one committed last.

- `TypeCorrect`, `CommitsAreTrue` (`CommittedIsTrue`); `RuntimeRests`
  (`RestsOnCommitted`) under `OneRoot`, without which it fails (section 10).

## 12. What is only model-checked

The liveness properties (`ReservationsEnd`, `DraftsAreAttached`, `JobsSettle`,
`KnownGenerationsSettle`, `OpenPromotionsSettle`): they rest on fairness, and so
on ENABLED, which the prover does not treat; and `EvidenceIsTrue`, of which the
weaker `EvidenceOfLiveRowsIsTrue` is proved without its assumption that processes
take turns. Every other invariant and action property the passing runs check is
also proved, under the assumptions section 11 names.

## 13. What is not modelled

- Of the reservations: distribution plans and promotions as further reuse
  matches, account groups, surfaces, account eligibility and overrides (they
  narrow or widen who may reserve, not how rows move), the reports.
- Of the exports: building, validating and uploading the payload (one step that
  may fail), the comparison of hashes (an acknowledgment fits or is reported),
  reclaiming the pipeline job, the state `superseded`, which nothing writes.
- Of the renders: retries of the migration, `queue_job_events`, log lines, and
  the commands themselves.
- Of the jobs: the append-only campaign events, dependencies between jobs,
  listing and counting, payload and error columns.
- Of the spending: signed budget overrides, governance, the kill switch and
  signatures (they refuse), the capacity check of a batch (each issue decides
  again), fallback attempts under one authorization, cost attribution.
- Of the paid generation: plans, quotes and approvals, the probes and hashes of
  the media, executors that overlap at one output path.
- Of the promotion: the authority, tool and backup checks (they refuse), the
  environment that is built for the runtime, and an interrupt delivered right
  after the rename that commits the journal. The branch of the recovery that
  settles a committed journal with a receipt that says `rolled_back`
  (`runtime_promotion.py:2255-2274`) is left out: the promotion writes such a
  receipt only after a journal that says `rolled_back` (`:2936-2942`), and none of
  its steps makes that journal committed again.
- Every component marked `not_modelled` in `PROJECT.json`, with its reason
  there: those in the plan above, sequential operator tooling, pure data
  processing and I/O, schemas, and external systems.
