# cgov-api: a verification project

cgov-api copies Cardano governance data (proposals, votes, DReps, delegations)
from the Koios API to PostgreSQL and serves it. Reads are simple. What is hard is
the copying: cron jobs and requests of several containers work on the same rows,
Koios throttles and fails, lists change while they are read page by page,
processes stop anywhere. This directory holds TLA+ models of that part, the
configurations that check them with TLC, and proofs checked by TLAPS.

Paths below are relative to `src/src/` of the repository unless they say otherwise.

- [Inventory](#inventory)
- [Modules](#modules)
- [Runs](#runs)
- [Fairness](#fairness)
- [Proofs](#proofs)
- [Where the code and its word differ](#where-the-code-and-its-word-differ)
- [Not modelled](#not-modelled)
- [Plan](#plan)

## Inventory

| part | state | operations | what makes it hard | what must hold |
|---|---|---|---|---|
| **Job locks and runs** (`services/ingestion/syncLock.ts`, `jobs/runIngestionCronJob.ts`, triggers) | rows of `sync_status` with a flag and a lease, per container the flag `isRunning` | acquire, release, cron callback with the lane of heavy jobs, manual trigger, sync of a read | two containers, leases that run out, failed and unacknowledged writes, crashes | one run per lock while leases hold; every path gives back what it took; a row left behind is taken over |
| **Database resilience** (`services/prisma.ts`, `services/ingestion/dbFailFast.ts`) | counter and queue of the write semaphore, failure times, open circuit, fail-fast switch | read, write, retry, release, open, skip | all calls of a process share it, sleeps with a slot held | slots counted right, no lost wake-up, order, calls return, degradation ends |
| **Koios client** (`services/koios.ts`, `services/koios/`) | counters and queues of two nested limiters, the burst limiter's chain, three cooldowns, their row in the database, the cached list | gate, limit, send, record pressure, publish, pull, page | microtask races, cooldowns told out of order, containers that share them | limits kept, nobody waits for ever, no cooldown lost, shortened or passed unseen |
| **Paging** (`koiosGetAll`, `collectPaginatedWithOverlap`) | offset, rows read | page, overlap pass | the list changes between pages, the page size with the pressure | every row that was there is read, or the loss is bounded |
| **Retry** (`services/ingestion/utils.ts`) | attempt, class of the error | attempt, wait, abort | errors of different classes, abort at any time | budgets, no attempt after abort |
| **Vote ingestion** (`services/ingestion/vote.service.ts`) | votes, checkpoint | two passes, save, resume, prefetched votes | blocks and forks during the run, stops between page and checkpoint | all votes, checkpoint behind the database |
| **Proposal sync** (`services/ingestion/proposal*.ts`, `services/syncOnRead.ts`) | status and votes of a proposal, cached lists, single flight | bulk, overview, details, single ingestion, finalize | four kinds of runs at once, the chain moves meanwhile | status never ahead, final only with its votes, settles |
| **Sync on read** (`services/syncOnRead.ts`) | keys in flight, cooldown times, aliases, guard rows | admit, skip, guard, discover, ingest, overview | state read before an await and used after it; names of one proposal | one sync per key, one ingestion per proposal, slots freed |
| **Delegation sync** (`services/ingestion/delegation-sync.service.ts`) | delegations, change log, two checkpoints, cursors, clear guard | three phases, resume, reconcile | delegations move between hundreds of requests; stops between writes | clears justified, log complete, converges |
| **Delegation writer lock** (`delegation-writer-lock.ts`, `drep-delegator-sync-run.ts`) | advisory locks of sessions | lock, unlock on any pooled connection, second pass | session-level lock through a pool | one process writes; nothing stays locked |
| **Epoch totals** (`epoch-totals.service.ts`, `epoch-analytics.service.ts`) | a row and a mark per epoch | refresh of the current epoch, end of the previous one, backfill of all | two jobs write one row, some numbers are left null while a scan has the lane, a dead scan keeps it | closed epochs become complete and stay so |
| **DReps** (`drep-sync.service.ts`, `drep-lifecycle.service.ts`, `drep-lookup.ts`) | rows of DReps, snapshots, certificates, marks per epoch | inventory, snapshot, info, lifecycle | each run marks its epoch for good, parts of it fail | a mark is earned |
| **Voters** (`voterPowerSync.service.ts`, `voterIngestion.service.ts`) | power of DReps and pools, caches | refresh, confirmation of what a list leaves out, creation on demand | epochs that turn, lists with holes, cached answers | no power is lost or taken back |
| **Voting power** (`proposalVotingPower.service.ts`, `proposalPipeline.ts`, `inactiveDrepPower.service.ts`) | fourteen columns of a proposal, two caches | summary, totals, inactive power, write | parts of different epochs and ways to compute them | a row is whole, an active DRep is not counted inactive |
| **Votes as told** (`libs/proposalMapper.ts`, `libs/ledgerVoteMath.ts`) | none | shares, thresholds, verdicts | rules of the ledger by role, action and epoch; numbers that do not belong together | the ledger's rule, bounded, monotone |
| **Surveys** (`libs/surveyMetadata.ts`, `proposalSurveyTally.service.ts`) | responses as stored | link, validation, evidence, weights, tally, finalization | two forms of one response, order of responses, failed requests | a responder counts once, final is earned |
| **GitHub pipeline** (`services/ingestion/github-*.ts`) | recent events, histories, totals, tiers, strikes | sync, snapshot, roll-up, backfill, discovery | three locks, increments beside absolute writes, steps in no transaction | nothing lost, counted once, deactivation earned |
| **GitHub client** (`services/github-graphql.ts`, `githubSharedCoordination.ts`) | rate limit and health counters in one row of JSON | pull, wait, send, publish, count | containers that change it at once | no change lost, every call goes out |
| **HTTP surface, analytics, metadata, AI, scripts** | caches | queries | little | out of scope |

How they interact: a cron callback or a trigger takes its **job lock** through a
**resilient write** and starts a service; a read goes through **sync on read**,
which takes guards that are rows of the same locks. A service asks Koios through
the **client** (cooldown gate, burst limiter, nested limiters, **retry**), reads
lists by **paging**, and writes through the semaphore. Proposal sync calls vote
ingestion and the calculation of voting power; delegation sync runs under a job
lock and, because its lease may be too short, under the **writer lock**. While it
scans it marks a lane that the epoch totals look at. The ingestion of votes
creates voters whose power the refresh keeps up to date. The mapper and the
surveys read what all of them have written.

## Modules

A module models one component, over constants that the code takes from its
environment. Modules at the edge of another one assume what that one shows:
`ProposalSync` uses the locks as held while their leases last (`SyncLock`) and a
streaming run of votes as complete (`VoteIngestion`); `SyncOnRead` leaves what a
sync does to `ProposalSync`; `WriterLock` leaves the passes to `DelegationSync`.

### SyncLock, JobExclusion

`row[l]` is the row of a job or of the heavy lane: the flag and what is left of
the lease. `pc[r]` walks a run through the callback of
`startIngestionCronJob`: local flag, pressure gates, acquisition of the job and
of the lane, work, releases on the paths of return and throw. Acquire is one
transaction with the row lock (strict), or a read and an upsert in two steps
(`STRICT_SYNC_LOCK_ENABLED=false`). A write may fail, be retried, or commit
without an answer; a container may die. `lag` is the age of the `now` that the
acquisition read before it queued, so stale clocks are part of the model.
`breached[l]` marks, as history, that somebody still inside lost its lease:
what is promised is promised until then.
`JobExclusion` is the lock as its users see it, without rows or clocks.

### DbResilience

`createSemaphore` with its counter and queue, `executeWithDbResilience` with its
attempts (slot held while sleeping), the failure window and the circuit, and the
fail-fast switch of the ingestion units. Time is what is left of each deadline.

### KoiosGate, ConcurrencyLimiter, SharedCooldown

`KoiosGate` is the way of a request through `withKoiosConcurrencyLimit` up to
the limiters: the checks of the cooldowns before and after the burst limiter,
with the clock that the second round reads once, and the answers that start
cooldowns. `ConcurrencyLimiter` is the pair of nested limiters; a woken request
counts itself in a later microtask, so an arrival in between can overtake it:
`overtook` marks that as history. `SharedCooldown` is the exchange of
cooldowns through one row: publications with their throttle, merges that cross,
pulls that answer late.

### KoiosPaging, Retry, KoiosRequests

`koiosGetAll`: pages by offset whose size the pressure changes, over a list in
which rows come and go between pages, then a pass over the last rows. `Retry` is
`withRetry`: one counter of attempts, a budget per class of error, an abort.
`KoiosRequests` puts gate, limiters and retries together and states what is
promised of a request: `RequestsAdmitted`.

### VoteIngestion

Votes as Koios lists them (block, transaction, voter), blocks that add and forks
that remove, and `ingestVotesForProposal` in steps: fetch a page, write its
votes one by one, save the checkpoint, go on to pass two, complete. Every way of
saving a checkpoint is there, those of failures too. `due` is what a run owes.

### ProposalSync, SyncOnRead

`ProposalSync` follows one proposal through the four entry points, all of which
end in `ingestProposalData`: list (cached or not), read of the known status,
upsert that keeps it, votes, voting power, and finalization. Its `world` is what
does not change: which kinds of runs there are at each place, whether the proposal
is an info action, what may become of it, how many votes come and how often
something fails. `SyncOnRead` is what
precedes: the key of a read, reservation of its slot before the first await,
skip check, guards (nested after discovery), and the overview under the lock of
the cron job. Times are ages; the time stamp of a request is `lag` old when it
is used. The map of cooldowns keeps its order of insertion, as a `Map` of
JavaScript does: an entry has its age and the keys that came before it.

### DelegationSync, WriterLock

`DelegationSync` has one run after the other: scan of all DReps or of a shard,
DRep by DRep, resolution of conflicts by history, the first backfill with its cursor
or that of new addresses, the plan of creates, updates and clears with the clear
guard, and phase 3 chunk by chunk with its checkpoint in two tables. The DReps of
the chain (`Dreps`) need not be in the inventory (`listed`), which learns of them
from its own sync or from a run that finds one in an account. A full scan is due
when the last one is too old (`fresh`, counted in runs) or the first backfill is not
completed (`backfill`). `untold` and `missed` are the gaps of the log. `WriterLock` has the advisory lock as PostgreSQL does (a count per
session) and lets each statement go to any connection of the pool.

### EpochTotals, DrepRegistry, VoterPower

`EpochTotals`: a row's two kinds of numbers, what Koios has of the epoch and the
special DReps' (`null` while the lane is taken), each `open` or `closed` by when
it was read; both jobs at once, since a run that a request started takes no
heavy-job lane; the scans of the delegation sync with their lane. `DrepRegistry`:
the three jobs of the DReps with their four marks. A DRep stands for a chunk.
`VoterPower`: the refresh (list, confirmation, chunks) with the role, the epoch
and the powers it read; the creation of rows by inventory and ingestion with the
latter's cache. A stored power is kept with the epoch it is of, as history.

### VotingPower, InactivePower, VoteTally, ProposalTally, Survey, SurveyTally

`VotingPower` models a number by where it comes from: epoch, way, and whether
the request failed. Two runs update two proposals with a run's cache and the
process' cache; `written` is the stored row. `InactivePower` is the window of epochs around a completed
proposal, over votes and certificates as far as they were ingested; what Koios is
asked for is dated as `blockTimeToEpoch` does (`LookedUpEpoch`).
`VoteTally` has the shares of the three bodies twice, as the mapper and as the
analytics compute them, and the verdicts; `ProposalTally` moves the stances of
the bodies, the rows of votes and Koios' totals beneath them. `Survey` has what
is accepted of links, surveys and responses, deduplication and the tally;
`SurveyTally` the rows, the readers between two requests, and the epochs.

### GithubTables, GithubSync, GithubRollup, GithubPipeline, GithubClient

The tables count with bags of events, so that an event that is missing or there
twice can be named. `GithubSync` has the batches (retried without what does not
resolve), the tiers and strikes; `GithubRollup` the roll-up in its statements,
the backfill and the discovery; `GithubPipeline` puts them together, one after
the other or as their locks allow. `GithubClient` is the row of JSON under
transactions, with calls, pulls and publications.

## Runs

Several questions are asked in one run: an `MC` module starts in one of some
*settings* (or *parts*, or *worlds*) and keeps it, so that each behaviour works
one of them, with bounds of its own. What a setting is not about rests in one
state, and its properties name the setting they are of. Where a module's
`TypeOK` is proved (next chapter) no run repeats it; the others check it inside
their `Inv`.

| run | properties | settings and bounds |
|---|---|---|
| `sync_lock` | `HeavyRunsSerialized`, `NoLeakWithoutFault`, `ClearedOnlyAfterWork`, refinement `ImplementsJobExclusion`; `RowsWhole`; `ActiveNeverCounted` | "strict", "loose": two heavy jobs in one container and a run of the first job in another, a trigger or a read; one fault; leases of one and two ticks, acquisitions one tick old. "power": two proposals that expire in epochs two and three, the bulk run and a read, the totals of the DReps before those of the pools (they have nothing in common). "inactive": a DRep and a predefined option, two actions, a window of two epochs |
| `db_resilience` | `Inv` (types, `SlotsAccounted`, `NoLostWakeup`); `CallsReturn`, `DegradationEnds`; `RunsRecover` | "calls": four writes and a read, two slots, queue of two, two attempts, threshold two. "locks": `SyncLock` with two cron runs and a fault, under fairness |
| `koios_client` | `NothingUnpublished`, `NeverShortened`, `EveryoneLearns`; `LossBound`, `TailBound`; `RequestsAdmitted` (`GrantsSpaced`, `CooldownHonoured`; `LimiterInv` with `CountersExact`, `NoLostWakeup`, `WithinMax`; `RetriesWithinBudget`, `NoAttemptAfterAbort`); `LimiterPasses` | "cooldown": two containers, two moments, one fault. "paging": up to three rows, pages of one or two, two removals. "gate": two callers, two kinds of cooldown, four ticks. "limiter": two requests of an endpoint with one place, two others, two places in all, pressure on and off. "call": the budgets of `KOIOS_DEFAULT_RETRY_OPTIONS` |
| `delegation_sync` | `LogComplete` (`EveryRowLogged`, `HistoryLogged`), `ClearsJustified`, `Converges`; `TotalsConverge` | two addresses, two DReps of which the inventory has one, two shards, one run between full scans, two delegations; "stopping": a stop and an epoch that ends; "failing": a failed request and an inventory that grows; "totals": three epochs, both jobs, one scan beside those that free the lane, one failure |
| `proposal_sync` | `StatusTrue` (`NeverAhead`, `FinalHasVotes`), `VotesComplete` (`AllVotes`, types, `CheckpointBehind`), `IngestKeepsStatusLocked`, `DatabaseConverges` | cron job and two others; "all": all kinds in two processes (no request to ingest in the second, which shares no more with the first than a sync of details); "here": two kinds in one process, two votes, a failure, three outcomes; "info": an info action; "votes": `VoteIngestion` with three votes, pages of two (one vote more than a page), four blocks, a fork, a failure, a stop |
| `reads` | `SyncsOwned` (types, `OneOwner`, `LocksOwned`, `OneIngest`), `TimesSpaced`; `TallyRight`, `VotesCount`; `SurveyRight` | "names": two processes that crash, both names; "twice": two reads in one process that crashes; "overview", with pressure; "times": two proposals, a cooldown of one that pressure doubles, time stamps up to one old; "tally": two members that vote and vote again, four that are settled, a body's power of three, totals up to four, every type of action; "survey": two questions, three responses of a pool and a DRep, two surveys, three epochs |
| `writer_lock` | `OneProcess`; `EpochMarksEarned`; `PowerKept` | "writer": two processes with two connections and two runs; the lease may run out at any time. "registry": two DReps, two certificates, two epochs, one fault, one job at a time (they all take the heavy lane of `SyncLock`). "voters": a DRep that has power, none and power again, and a pool that gains, three epochs |
| `github` | `PipelineInv` (types, `NothingLost`, `CountedOnce`), `EqualWeights`, `EveryRepoAccounted`, `DeactivationEarned`, `OldEventsLeave`; `CursorLosesNothing`, `EveryCallGoesOut` | eight worlds of the pipeline: a commit, a merged pull request and a release with sync and roll-up, without troubles, with a failed write or a crash, with a failed request, with the backfill, or side by side; repositories that do not resolve with each job that strikes them; and two of the client: two transactions on the row, two calls of a process |
| `vote_ingestion_skips` | `AllVotes` is violated | four votes: two full pages |
| `proposal_sync_ratified` | `Converges` is violated | the cron job alone |
| `survey_answers` | `AnswersTallied` is violated | the "survey" of `reads` |
| `writer_lock_leak` | `NoLeak` is violated | the "writer" of `writer_lock` |

Why the bounds are enough. A lock race needs two runs and a third to profit from
it; the lane needs two heavy jobs. The semaphore's queue needs two waiters to have
an order and four writes to overflow. A limiter is overtaken by one arrival. Two
merges cross with two containers. A lost row of a page needs one removal and one
page boundary, two removals tell a bound from a coincidence. A checkpoint needs
a page before and a page after it. A moving delegation needs two DReps; a shard
rotation two shards. A nested guard needs two names. A complete row that an
incomplete one overwrites needs two jobs and one failure. A power that is taken
back needs three epochs: one to keep, one to change, one to return. An event
that is counted twice needs one roll-up that stops and one that comes after it.
A later response needs two of one responder; a majority of a body of three needs
no fourth vote. The bounds that stop behaviours (`MaxVotes`, `MaxMoves`,
`MaxEpoch`, `LastEpoch` and the like, `MaxFaults`, `MaxFails`, `MaxStops`,
`MaxRuns`, `MaxGone`, `MaxSends`, `Horizon`, `MaxLag`, `MaxHeld`, `MaxScans`,
`MaxResponses`, `MaxDay`, `MaxCount`, `MaxRow`, `MaxLost`, `LastMoment`) are named
in their modules; those that matter for all values are covered by the proofs.
`SYMMETRY` is used in `writer_lock`, which has no liveness and whose processes,
connections, runs and DReps are alike. `CHECK_DEADLOCK FALSE` stands where a part
comes to an end: a list that has been read, a clock at its horizon, a lock with
no more runs, an epoch that is the last.

## Fairness

- **SyncLock**: awaits end (requests and transactions have timeouts), timers of
  node-cron fire again and again, time passes, and a pressure cooldown is not
  renewed for ever, which is why passing the gate is strongly fair. Triggers and
  reads need not come.
- **DbResilience**: an attempt ends (statement timeouts), sleeps end.
- **ConcurrencyLimiter, SharedCooldown**: requests end, microtasks run, a
  merge that was issued ends, reads go on pulling.
- **VoteIngestion, DelegationSync**: the job comes again and its steps go on
  (weak fairness of the steps of a run, which include its beginning). That runs which
  are not full ones come is not assumed: it follows once the first backfill is
  completed, which is why `Converges` has that premise, and from `Week`, by which at
  least one run fits between two full scans (hourly runs and seven days make 168).
  Nothing is assumed of votes, moves, the inventory, failures and stops, which are
  bounded.
- **ProposalSync**: the cron job begins again and again; runs under way go on;
  reads need not come.
- **EpochTotals**: both jobs come again and their requests end; a lane that is
  marked is scanned again, and a scan ends (the delegation sync is a cron job,
  too). A scan need not begin otherwise.
- **GithubPipeline, GithubClient**: the daily roll-up gets its turn again and
  again between the runs of other jobs (strong fairness: it is due at a fixed
  hour, and other jobs hold it up only for a run), the steps of runs and calls go
  on, and time passes.

## Proofs

TLC checks small instances; the theorems hold for all values of the constants
under the named assumptions of the modules. Those say of what kind the constants
are (sets, functions, positive limits), that names of processes and runs are not
taken for the marks beside them (`Nobody`, `NoRun`, "cron", ...), and, where a proof
counts, that a set is finite. Two hold in addition: `ListsAssumption`, that the
lists a paging begins with are without duplicates, and `MaxCount >= 2`, so that the
bags may count what each commit adds to its author's total. `TallyAssumption` has
a bound that is needed: less than 200 members of the committee (with less than 7
the code decides nothing). From 203 members on, a share of Yes just below 67 percent may be rounded up to
67.00, and the proposal's status would disagree with the verdict on
constitutionality. And `None` is not any of the values it stands beside.
Each component has an inductive invariant of its own; TLC checked those of the
delegation sync, of proposal sync and of the two tallies on their runs' instances,
too. Where an `MC` module puts several modules side by side (`MCReads`), the theorems
are of those modules. Every leaf is checked by Z3, Zenon or LS4; nothing is assumed besides.

| module | theorem | property of the run |
|---|---|---|
| `SyncLockProofs` | `HeavyRunsSerializedHolds`, `ClearedOnlyAfterWorkHolds`, `NoLeakWithoutFaultHolds`, `RefinesJobExclusion` | the locks of `sync_lock` |
| | `StoredRowsAreWhole`, `ActiveAreNeverCounted` | `RowsWhole`, `ActiveNeverCounted` |
| `DbResilienceProofs` | `SemaphoreSound` | `Inv` of `db_resilience` |
| `KoiosClientProofs` | `NothingUnpublishedHolds`, `NeverShortenedHolds` | the cooldowns of `koios_client` |
| | `LossBounded`, `TailBounded` (and `AllRowsRead`) | `LossBound`, `TailBound` |
| | `RequestsAreAdmitted` (from `CooldownsAreHonoured`, `LimitersKeepCount` and others) | `RequestsAdmitted` |
| `DelegationSyncProofs` | `LogIsComplete`, `ClearsAreJustified` | `LogComplete`, `ClearsJustified` |
| `ProposalSyncProofs` | `StatusesAreTrue`, `LockedIngestsKeepStatus` | `StatusTrue`, `IngestKeepsStatusLocked` |
| | `VotesAreComplete`, with at most one vote more than a page | `VotesComplete` |
| `ReadsProofs` | `SyncsAreOwned`, `TimesAreSpaced` (and `OneIngestAtATime`) | `SyncsOwned`, `TimesSpaced` |
| | `TallyIsRight`, `VerdictsFollowVotes` (and `TallyTypeCorrect`) | `TallyRight`, `VotesCount` |
| | `SurveyIsRight` | `SurveyRight` |
| `WriterProofs` | `Exclusion`, `MarksAreEarned`, `PowerIsKept` | all of `writer_lock` |
| `GithubProofs` | `PipelineKeepsEvents`, `PipelineWeighsEqually`, `EveryRepoIsAccounted`, `PipelineDeactivatesDuly`, `NoChangeLost` | the safety of `github` |

Where a run sets a bound, a theorem holds for every value of it, and where a run
keeps some steps apart to stay small (jobs of the registry, parts of voting power)
the theorem is of the module, which does not.

**Job locks.** `TypeOK /\ Flags /\ LeaseHeld /\ BreachOccupied`: the local flags
follow the phases (so every release concerns a lock that is held); the row of
a lock that was not breached says running, has time left, and records its one
holder; a lock is breached only while somebody is inside. `Exclusion` alone is
not inductive because a takeover looks at the row, never at the holders.

**Voting power.** `RowsWhole` with the types and `PartsOf`: a run that has the
summary put together only numbers of the epochs and the way that its proposal
called for when it began, or none; and each cached number is filed under the epoch
and the way it is of. For inactive DReps, `ActivityInv`: votes lie within the life
of their action, so that a vote within the window is on an action which that
window shows; stored certificates are some of the chain's.

**Write semaphore.** `SlotsAccounted` and `NoLostWakeup` are inductive together with
the types: the handover keeps the counter, and a write queues only when all slots
are taken.

**Koios cooldowns.** Whatever a container knows, and whatever it last published, is
in the row, under way, or lost (`Delivered`), and the row covers every snapshot
that a pull holds; the two properties follow since merging takes the maximum.

**Paging.** The types and `HiddenBound`, which says in each pass how many kept rows
may lie behind the offset unread: as many as have left. `TailHiddenBound` says the
same of the second pass and the rows that it began with. A row that comes in pushes others back;
one that leaves hides one row at most.

**Gate, limiters, retries.** `GrantInv`: the grants are in the order of time, so that
the recent ones are the last of them, and with fewer recent ones than the maximum
the next grant is a window after the one that many places before it. `GateInv`: of the cooldowns that a caller
has looked at since it was granted, each is over or grew after it looked
(`missed`), although the second round goes by a clock read once: that clock is
never ahead. `LInv`: the counter of a limiter is the number of its holders; a queue
holds those who wait, each once, and unless it is empty somebody holds the limiter
or was woken for it; and until a woken request is overtaken, holders and woken ones
together are within the maximum. `RetryInv`: a class was granted no more waits than
there were attempts.

**Delegation sync.** `Typed /\ Shape /\ Justified /\ Logged`. `Justified` follows a
stake address that stays with its DRep: the request for that DRep is out, has
failed, or its answer shows the address, and so does what the run concludes from
it; only who moved, or was to be in no answer when the run began (`bare`: delegated to
nobody, or to a DRep outside the inventory and not among the accounts asked), can be
absent. `Logged` says in each phase that the log tells of a row, that a change is
planned which the checkpoint has not passed, or that the row is one of the gaps:
cleared by the reconciliation, left by a stop, or skipped by a checkpoint that an
earlier run left for another list (`untold`); likewise of histories (`missed`). It
holds whatever stops. `Shape` ties the plan to what the run saw.

**Proposal sync.** Every row that a run or a cache holds is an earlier state of the
chain's (`Before`), and a proposal has one course (`OneCourse`), so that a status
derived from such a row is not ahead (`RankGrows`); without runs of details, a
status that is not retryable is only about to be written where the proposal is
decided and the votes are all there, and no vote comes after (`JobOK`). One run
holds the lock (`Alone`), so that where all take it the status a run read is still
there when it writes it back (`Undisturbed`).

**Vote ingestion.** `ChainOK /\ RunOK /\ VotesOK`. A vote that is owed and not yet
written is in a place of the list (`WillRead`) where the run, or one that goes on from
its checkpoint, reads it: anywhere, before the first page; behind a full first page,
no older than the cursor, in the rest of pass one; and in pass two as far behind the
rows from the lower bound as the offset says. Blocks and forks leave what is owed in
its place (`BehindStays`). Pass one needs the bound on the votes, which is a
hypothesis of the theorem: with two votes behind a full page, the second page can begin
with the second of them and move the cursor past the first.

**Sync on read.** `GuardsHeld`: a sync past its guard holds that of its key, and one
that ingests that of the proposal's id, too; guards are freed only by who holds
them. `OneOwner` and `Locks`: a key in flight is that of one admitted read; a lock
is held by a sync that will free it, or its owner died. For the cooldowns, `Times`:
an entry of the map is as old as the last start of its key; a key without an
entry may start again; and since the entries came one after the other (a place in
that order is part of an entry), the one just stamped is among those that the cap
keeps. A read that has reserved its slot still has a right to it after the await.

**Tally of votes.** `TallyInv` is hardly more than the types: the stances are numbers
of which the reported no-power is made, and each vote is ingested once. The work is
in the arithmetic. Yes, No and what is left out are sums of stances, whichever of
the three formulas is used (`Sides`, `TallySides`); a share grows with its side and
falls with the other (`ShareGrows`), though it is rounded, and though what did not
vote is cut off at 0 when the total is of another epoch (`SidesMove`): so a verdict
only turns the way the power went. For the committee, the rows that
`getLatestCcVotes` leaves are one for each member that voted, its last
(`LatestAre`), and so the counts are numbers of members (`CountsAreMembers`); that
a share rounded to hundredths is at least 67 only if the exact one is
(`RoundingExact`) is where the committee's size comes in.

**Tally of a survey.** `SurveyInv`: each row is of the response of its place, as its
voter sent it, with or without its label, and whoever reads has a valid link. Then
validation of what is stored asks of a vote just what `Stands` says (`VoteValid`);
two votes have one key if they are one voter's, in both forms of the credential,
and are ordered as the chain is (`VotesCompared`); and since weights change
nothing of this (`WeightedSame`), what is counted are the last good ones
(`CountedAre`). A weight without an error is of the epoch it was asked for
(`FinalWeights`). What the answers add up to is not part of the theorem: there code
and test disagree (`survey_answers`).

**Delegation writer lock.** `TypeOK /\ OneSession /\ OwnSession /\ Covered`, if no
session ends under a run (`~Losses`): a session has the lock as often as runs
rely on it, so that unlocks on a wrong session cannot free it under a run.

**DReps.** `EpochMarksEarned` with the types; `EpochsOver`, that runs work on epochs
that are over, so that no certificate falls due for a run under way or for a mark;
and the accounts, that at each place of a run what it has still to do, what it
failed to do and what is stored make up all that is due. The marks alone are not
inductive: they say nothing of runs.

**Power of voters.** `FoundIsTrue`: what a run found is the power of the epoch it
began in, and whom it found empty has none in it, if Koios has an epoch's history
from its start (`~Late`; the next chapter says what happens otherwise).

**GitHub.** Three arguments. The accounts of a run: each repository is still to come,
in the batch, done or failed. The tables (`Typed /\ Accurate`): sync, roll-up and
backfill are never at work together (`Apart`); what was rolled up is older than the
window of any sync to come (`Past`), so that it is not stored again; what the
roll-up and the backfill hold is what the tables hold (`RollKnows`, `FillKnows`), so
that what is deleted is what was added. These say "without stops" or "without
overlap" where the property does. The strikes: the stored counter is never ahead
of the answers that count against a repository. And the row of the containers:
whoever has it is alone and has read what is committed (`RowHeld`).

Only model-checked:

- All liveness and all refinement of fairness (`CallsReturn`, `DegradationEnds`,
  `RunsRecover`, `EveryoneLearns`, `LimiterPasses`, `Converges`, `TotalsConverge`,
  `DatabaseConverges`, `OldEventsLeave`, `EveryCallGoesOut`): fairness and ENABLED
  are beyond the prover.
- What the folds over votes and responses add up to (`tallyLovelaceVotes`,
  `buildMethodResults`): for every input this needs induction over data, which the
  provers cannot instantiate. The theorems on tallies are of the counts and of who
  is counted, which need none.
- `VotesComplete` beyond one vote more than a page holds of some sizes only: see
  `vote_ingestion_skips`.

## Where the code and its word differ

Four runs show a disagreement; PROJECT.json quotes both sides.

- `vote_ingestion_skips`: with two full pages pass one skips votes
  (`vote.service.ts:459`). With at most one vote more than a page none is skipped
  (`VotesAreComplete`); with two more, one can be (TLC, pages of three, five votes).
- `proposal_sync_ratified`: a proposal that was synced while RATIFIED never
  becomes ENACTED (`proposalPipeline.ts:130`). `DatabaseConverges` is what remains.
- `writer_lock_leak`: the unlock may land on another connection, and the lock
  stays (`delegation-sync.service.ts:2059`).
- `survey_answers`: a response ingested from the chain is stored without its
  label, counts among the valid ones, and in no option (`vote.service.ts:933`).

Limits that properties name in their conditions, or that a model has as steps:

- `releaseJobLock` names the job, not the holder: once a lease is lost, the run
  that lost it clears the row of its successor (`breached`).
- A delegation sync that stops between the rows and the log, or between new
  addresses and their history, leaves changes that are never logged; a checkpoint
  taken up for a list computed anew skips entries of it; and a row that the
  reconciliation clears has no entry at all (`untold` and `missed` in `LogComplete`).
- A stake address that moves between two requests of a full scan may be in no
  answer and is cleared (`moved` in `ClearsJustified`); so is one that went to a DRep
  which the inventory does not have, unless its own account is asked (`bare`).
- A delegation sync that stops between the insertion of new stake addresses and the
  first saved cursor of their histories leaves the first backfill open for good:
  what it found is known now, so that no later run begins the backfill
  (`delegation-sync.service.ts:1385`), and there is no cursor to resume it from
  (`1404`). Every later run is a full scan (`1014`), although `sync-utils.ts:41` has
  days between two of them, and its failures may hold clears back for ever.
  `Converges` is of a first backfill that is completed.
- `blockTimeToEpoch` takes the first second of epoch 209 for that of 208
  (`inactiveDrepPower.service.ts:140`; `drep-lifecycle.service.ts:23` has the right
  one): a certificate that Koios answers with is filed an epoch early, so that a
  DRep whose only act is one of the window's oldest epoch is counted inactive.
  `ActiveNeverCounted` names that epoch.
- The sync of a proposal's details fetches votes before the list: a proposal
  that is decided in between is final without the last votes; and an upsert may
  put back ACTIVE over a status finalized by another process (both are left out
  of the settings of `FinalHasVotes` and `IngestKeepsStatusLocked`).
- A guard of a read or the lock of the overview that cannot be released is logged
  and left behind until it is too old (`syncOnRead.ts:371`, `630`): in `SyncOnRead` a
  release succeeds, and what is left behind is left by crashes.
- After a lost answer or a release that throws, a job's row stays until its lease is
  over: `NoLeakWithoutFault` is void after a fault, `RunsRecover` is not.
- Answers to sync and snapshot that a repository does not exist are counted for ever:
  no success clears that count, so that two of them, however far apart, deactivate it
  (`DeactivationEarned` counts them in total, those of the backfill since it
  succeeded).
- Rows of committee votes have the time of the vote in `VoteTally`; the fallbacks of
  the mapper to other times are not reached.
- A proposal read under two names has two cooldowns until it is known, and
  entries are pruned after the ordinary cooldown even under pressure.
- A class of errors with a larger budget than `maxRetries` waits once in vain
  (`fellThrough` in `Retry`).
- Callers that the burst limiter granted during a cooldown leave the gate
  together when it ends.
- A second run of one process may take the writer lock again when the job's
  lease ran out; a second pass that is skipped is recorded as a success.
- A roll-up of GitHub activity that stops between its statements is repeated: what
  it had added is counted twice (`CountedOnce` and `EqualWeights` leave stops and
  repeated writes out, `NothingLost` does not). Side by side with the sync, an old
  event may be deleted without being rolled up, and the backfill's counts replace the
  sync's ("overlap", which these properties leave out). Each commit has two units in the developers' totals
  (`github-aggregation.ts:376`), which is why `EqualWeights` says 2.
- An epoch that ends between the requests for its own totals and their write
  leaves numbers of an open epoch for good (`Straddles`).
- The inventory creates rows of new DReps and then asks for the info of those it
  does not find in the table, of which there are none: their info waits for the
  next run of the info job, whose mark is set whatever failed
  (`EpochMarksEarned` leaves the info out).
- While Koios has no power history of a new epoch, the refresh confirms every
  voter empty and sets it to 0 (`Late`); and a refresh that began in the previous
  epoch may write that epoch's power over a newer one (`PowerKept`).
- The power of inactive DReps is 0 when a request fails, and cannot be told from
  a 0 that was meant (`inactiveDrepPower.service.ts:222`).
- In a finalized survey the identities of DReps and of the committee never match
  those of the table (`proposalSurveyTally.service.ts:553`): only pools count.

## Not modelled

PROJECT.json lists every part with its reason. The HTTP surface, analytics
queries, metadata, caches and scripts hold little state that could go wrong; pool
groups and the committee's state are replaced as a whole in one transaction; the
net change limit is a sum over rows. Within modelled parts the following is left
out: payload limits and the HTTP agent of the Koios client; rationales and the
joining of ingestions in vote ingestion; titles, metadata and amounts of
proposals; the forced backfill (FORCE_DREP_DELEGATION_BACKFILL), the delegator
counts and the staging table of delegation sync; what GitHub says of an event beyond kind, author and day; names
and other metadata of voters; the sums in the totals of an epoch; formatting in
the mapper; and the hooks of logging and metrics everywhere.

## Plan

1. Proofs: what the folds over votes and responses add up to, should the provers
   come to instantiate induction.
2. `NetChangeLimit` and the committee's state, once their readers keep state.
3. The older combined run of the epoch analytics beside the jobs that replaced it,
   and the lifecycle of a range of epochs.
