# A verification of MailPlus Intelligence in TLA+

MailPlus Intelligence reads the metadata of a mailbox into a SQLite database, makes promotion candidates
of it, has them reviewed by people, and exports what was approved as Markdown files with a manifest.
Several processes share the database and the output directory: `mpi sync`, `mpi queue`, `mpi export`,
`mpi seed`, scheduled jobs, and whoever uses the package from Python. Almost all of its correctness is about what
happens when they come between each other's steps, fail half way, or act on what they read earlier.

This directory holds TLA+ models of that, TLC configurations that check them, and proofs of the theorems
that TLAPS checks. Paths below are those of the repository; `queue.py` and the like are in
`src/mailplus_intelligence/`. `PROJECT.json` maps every definition to the lines it models and lists the
hazards, each at its line.

    tlc -config review_store.cfg ReviewStore      # checks one run
    tlapm ReviewStore_proofs.tla                  # checks the proofs of a module

## 1. The system

### Components

| Component | State | Operations that change it | What makes it correct |
|---|---|---|---|
| Promotion tables (`queue.py`, migration 004) | `promotion_queue`, `review_events`, `export_outbox` | `enqueue_candidate`, `decide`, `reserve_outbox`, `mark_outbox_exported/failed/rolled_back` | the history explains the row; only the current, eligible decision is planned or exported; a withdrawal is final; one content per idempotency key |
| Exporter and review commands (`exporters.py`, `cli.py`) | files, manifest, what a run listed and reloaded | `export_approved_candidates`, `_unlink_if_hash`, `mpi queue ...`, manual removal | a recorded export has its file; files say only what was approved; withdrawn files go; what is approved gets exported |
| Scheduler leases (`scheduler.py`) | `scheduler_locks` | `acquire_lease`, `renew_lease`, `release_lease`, `run_job` | live leases exclude each other; only the owner unlocks; a dead holder does not stop the job for good |
| Selected-text cache (`cache.py`) | `text_cache`, `text_cache_events` | `cache_write`, `cache_read`, `cache_evict_expired` | text exists between its write and its disposal only; one disposal, one record; expired text goes |
| Live sync (`live_adapter.py`, `sync.py`, `ingest.py`) | `sync_checkpoints`, `messages`, `ingest_decisions`, `message_locator_history`; the IMAP server's mailbox | `fetch_batch`, `run_sync_batch` | nothing below the checkpoint is missing; it does not go back; all mail is indexed in the end |
| Threads and ingest decisions (`threading.py`, `ingest.py`) | none of its own | `reconstruct_fixture_threads`, `prepare_ingest` | linked messages share a thread, whatever the order of arrival |
| Index writer and search (`index_writer.py`) | `messages` and the tables around it | `_plan_records`, `write_index_records`, `search_messages` | the plan predicts the execution; one row per mailbox and UID; pages show each row once |
| Mapper, classification, suppression (`mapper.py`, `classifier.py`, `suppression.py`) | none | pure functions over one message | noise is not extracted; each record is judged by its own message |
| Fixture sync, extraction, `mpi seed` (`fixtures.py`, `extractor.py`, `cli.py`) | the index and the queue | `sync_from_fixture_corpus`, `extract_from_corpus`, `cmd_seed` | a seed that was cut off is completed by the next one |
| Migrations, connections (`schema.py`, `sqlite.py`, `migrations/`) | the schema, `user_version` | `apply_all_migrations`, `apply_schema_v0`, every start of a command | the version never promises what is not there; a start after a crash, or beside another start, ends with the whole schema |
| LLM extraction (`llm_extractor.py`) | `llm_egress_events` | `extract_with_llm`, `extract_corpus_with_llm` | every call is authorized on record before, and has one outcome after; the caller's own transaction is left alone |
| Semantic contract | none | validation of a record | field by field; its effect on exports is in `Promotion` |
| Raw source fetch, doctor, runtime profile | none | reads | – |

### How they interact

- *Shared tables.* Reviewers, exporters and the operator meet in the three promotion tables only. Each
  function of `queue.py` is one `BEGIN IMMEDIATE` transaction, but an export is a dozen of steps with no
  transaction around them, and what was read in one step is used in later ones.
- *Shared directory.* Two exporters write and unlink the same file names. Names depend on artifact and
  revision, contents on the decision.
- *Lease and work.* `run_job` takes a lease, calls the job and releases the lease; each of those reads a
  clock first and executes a statement later. The disposal job sweeps the cache under such a lease, while
  `cache_write` and `cache_read` do not ask for it.
- *Server and database.* A sync reads the server in one session, page by page, and applies its batch in one
  transaction much later. The operator passes the saved checkpoint on to the next run. No lease is taken.
- *Plan and execution.* `run_sync_batch` plans a batch outside of any transaction, plans it again inside, and
  writes it record by record under savepoints; other processes may write before it has the lock, and searches
  read between any two batches.
- *Caller's connection.* The LLM extractor records its events on a connection that the caller passes and
  may have a transaction open on.
- *One database file.* Every command migrates the database when it opens it, beside others that do.

### What is hard

Reads that are stale when they are used (a reloaded row, a listed expired entry, a clock, a cursor); a file
system and a database that no transaction covers together; a crash or an `OSError` between any two steps; a
lease that runs out under its holder; a plan that was made from what another process has changed since; scripts
that are committed statement by statement; events that are committed and then reported as failed; UIDs that come to mean other messages; batches that abort at one bad
item and meet it again in the next run; migrated rows, which no transition of the present code produced.

## 2. The modules

    PublicationLedger  <--implements--  ReviewStore  <--extends, uses--  Promotion  <-- MCPromotion
                                             ^                           ^
                                    ReviewStore_proofs  <--  Promotion_proofs

    Clock  <--  Scheduler  <--+--  CacheDisposal          LiveSync  <-- LiveSync_proofs
       ^------  TextCache  <--+         ^
                                        |
                               CacheDisposal_proofs

    EgressLedger  <--implements--  EgressAudit  <-- MCEgressAudit, EgressAudit_proofs

    SyncLedger  <--implements--  IndexWriter  <-- MCIndexWriter
                                     ^
                                 IndexSearch  <-- MCIndexSearch, IndexWriter_proofs

    Migration  <-- Migration_proofs          Ingest  <-- MCIngest, Ingest_proofs

**ReviewStore** has the three tables and one action for each function of `queue.py` that writes them. A call
that raises is rolled back and changes nothing: it is a stuttering step. The callers are the most general
ones: any function at any time, with any item that was ever read (`SnapshotAt`). `events[a]` is the history
of an artifact by position, `queue[a].latest` a position in it (`latest_review_event_id`). `Init` is a
database as migration 004 leaves it: artifacts in `Migrated` have a legacy row in any of the seven statuses,
decided ones with their backfilled event, and with any corrected text, as the migration copies that whatever the
status. `exportedAt` is `exported_at` as far as it matters, set with the first export and never cleared. Notes, reviewers, timestamps and the envelope columns are left out:
the trigger protects the latter from change, so that a file's content is a function of what `BuildContent`
keeps. What an update of `queue` would be refused for by the trigger
`promotion_queue_review_snapshot_consistent` is a conjunct of `Decide`.

**PublicationLedger** is the abstract specification: at most one revision of an artifact is *granted*; only
that one is ever *published*; changing the grant recalls in the same step what was published under it; a
recalled revision never comes back. `ReviewStore!Ledger` maps the queue's eligible decision to the grant, and
the outbox states to the three sets. `planned` and `failed` are invisible in it, which is why `Review` may
also recall a revision that was granted and not yet published.

**Promotion** puts the real callers around the tables. A reviewer inspects and later decides with the
revision seen (`seen`). An exporter's `pc` follows `export_approved_candidates`: two listing queries, then for
each item reload, history check, reservation, re-reading, and either verification of a recorded export or
write, mark and, if refused, unlink; at last the manifest. Each of these steps is what no other process can
divide: one statement, one transaction, one `os.replace`. The operator removes withdrawn files and records
it. Disruptions, which an instance turns on, are a crash at any step, an `OSError` before or after the
replacement of a file, and the removal of a file that the runbook suggests.

**Clock**, **Scheduler**, **TextCache**, **CacheDisposal**. Times are kept as ticks that remain, so that time
goes on for ever in finitely many states; what is over for longer than `MaxDelay` cannot be told apart.
`age` is how long ago a process read the clock for the statement it is about to execute. A lease's token is
identified with the process that holds it. The row may also be one that a version without leases left
locked (`LockedWithoutLease`): the columns of the lease are null, and anybody may take it over. `CacheDisposal` composes lease and cache as
`run_cache_disposal_job` does: `SelectExpired` lists, `DisposeExpired` is the savepoint of the sweep with the
clock of the listing. Readers and writers do not take the lease. The cache may begin with an entry from before migration
005 (`LegacyEntry`): text it kept has no event, text it evicted has those of the migration.

**LiveSync** has the server's mailbox with deliveries, expunges and renumberings, and processes that run
`mpi sync run`. `Search` is the part of `fetch_batch` up to the page of UIDs, `Fetch` one `UID FETCH`,
`Apply` the transaction of `run_sync_batch`. The server's odd answer to `n:*` is modelled, as the code guards
against it. A locator is mailbox and UID: after a renumbering the same row stands for another message.
Errors of any sort end a run without a trace. `index` says which message the row of a locator stands for;
what else a row holds, its thread included, no property of this module speaks of.

**EgressAudit** has processes that run `extract_corpus_with_llm` over the threads. A request passes the
policy (`Authorize`), records its authorization by an insert, a commit and the repair of the file's mode
(three steps, each of which may raise), is sent, has its answer parsed, and records its outcome by the same
three steps. `tx` is what is pending on the process's connection: with the process's own events in it, and
perhaps with the caller's writes. Exceptions take the way the code's handlers take: the first handler rolls
back and records a failure, an exception in that one leaves the function, and the events of the failed insert
or commit may stay in the transaction. `sent` and `lost` are history. **EgressLedger** is the abstract
specification: authorized before it leaves, leaves once, completed only if it left, failed at the end.

**IndexWriter** has processes that run `run_sync_batch`. `PlanRecord` is one round of `_plan_records`,
outside of a transaction at first (each round may read another state of the database), then in the savepoint,
where it has a snapshot. `WriteRecord`, `WriteFails` and the steps after them are `write_index_records`, a
record at a time, under the unique constraint of mailbox and UID; then the checkpoint, and the release of the
savepoint. Where the statements of a savepoint itself raise (`SavepointFails`), outside of the handler of a
record, the result has the counts of the first plan. A write on a snapshot that is stale is refused, as SQLite does in WAL mode. **SyncLedger** says
what all that amounts to: a batch whose records could be written one after the other is applied in one step,
with its decisions, locator history and checkpoint; any other batch changes nothing. A message that the mapper
rejects is counted and makes no record; in the model it keeps its position, with the plan "rejected".

**IndexSearch** adds a caller of `search_messages` who follows the cursors.

**Migration** has the six scripts as sequences of statements, with the transactions they have: none for the
first three, immediate for the fourth and fifth, deferred for the last. `db` is committed, `tx` pending.
A process reads `user_version` once and executes what it finds missing then, a statement in a step; it may be
refused (a column or a table is there already), fail otherwise or crash at each. Careless processes call again
on the connection that an exception left as it was, where `executescript` begins by committing what is pending.

**Ingest** has `reconstruct_fixture_threads` with its union-find, in the code's order (`ExplicitLinks`, then
`UniteSubject` for each subject, from its first message), with the code's loops as functions of how many of
their rounds are over; `prepare_ingest` for a batch that is accepted as a whole, as no other's decisions are written; `extract_from_corpus`, and `mpi seed` as a process
that syncs, reads the corpus again, extracts, and enqueues one candidate in a step. Text is what the rules find in
it: `signals` for labels, flags, headers and senders, `lane` for the classifier's result, `tokens` for the
subject. The reference definitions stand with the properties: components of a relation that knows no order.

In every module, a definition whose comment begins with *Wrong:* is not part of the specification. It is a
plausible mistake in the code beside it, kept to show that a property notices it.

## 3. What the runs check

Times are with two workers.

| Run | Specification and instance | Distinct states |
|---|---|---|
| `review_store` | `ReviewStore`: an artifact of this version and a migrated one, one correction, 3 revisions | 333,750 (¾ min) |
| `promotion_disrupted` | `Promotion`: 1 artifact, 2 exporters, 2 reviewers, crashes and `OSError`s at any step | 546,969 under symmetry (1 min) |
| `promotion_withdrawal` | 2 exporters, 1 reviewer, files deleted by hand at any time, started runs continue | 64,732 (½ min) |
| `promotion_batch` | 2 artifacts, 1 exporter started again and again | 194,970 (1¼ min) |
| `cache_disposal` | 2 processes, 1 reader, 1 message, leases of 2 ticks, delays up to 1 tick, 2 troubles | 44,685 (¼ min) |
| `live_sync` | 3 messages of which 1 is malformed, 2 processes, pages of 1, 2 UIDs, 1 renumbering | 409,968 (2 min) |
| `egress_audit` | 2 processes with 2 requests and 1, 3 threads of which 1 has a cassette, 17 settings | 237,574 (1 min) |
| `index_writer` | 2 processes, 2 messages, 3 places, 7 batches | 718,292 under symmetry (1¾ min) |
| `index_search` | 1 syncing process, 3 messages, 6 batches, pages of 1 | 290,463 (1½ min) |
| `migration` | 2 processes of which 1 is careless, databases of all 7 versions | 429,984 (1¼ min) |
| `ingest` | 7,494 corpora of 2 or 3 messages, and the empty one | 85,568 (½ min) |

- `review_store`: `HistoryExplainsQueue`, `OutboxFollowsReview`, `OneContentPerKey`, `OutboxLifecycle`, and
  that the store implements the ledger (`ImplementsLedger`). Three revisions are the longest history that
  legal transitions lead from enqueueing over approval to withdrawal with something on either side (approved,
  corrected, withdrawn); the states with a cycle (candidate, deferred) repeat nothing new. Two artifacts show
  that one does not disturb the other, and mix old and new rows. The run ends in states where every artifact
  has used up its revisions, so deadlock is not checked; elsewhere it is.
- `promotion_disrupted`: a recorded export has its file with the approved content (`ExportedFileOnDisk`),
  though another exporter may be writing or unlinking the same name; files never say anything that was not
  approved (`FilesAreApproved`); what the manifest lists was marked as exported in the outbox before, and never
  was an export refused because its failure or its withdrawal came first (`ManifestIsRecorded`); of two
  reviewers with the same revision in hand only one decides (`DecidedOnWhatWasSeen`). Two exporters and two
  reviewers are the interesting number: each property is about a pair. `Statuses` is bounded to the path from
  candidate over approved and corrected to withdrawn; `review_store` has the others.
- `promotion_withdrawal`: a file without a current decision always has somebody who removes it
  (`StrayFileHasOwner`) even if the operator deletes files
  at other times, a file written after its removal was recorded goes again (`LateFileIsUnlinked`), and
  reviewers, exporters and operator take only steps that `ReviewStore` allows (`UsesStore`): what is proved of
  the store for any callers holds of these.
- `promotion_batch`: a decision that stands is exported by one of the runs that follow
  (`ApprovedIsExported`), though a review of one item aborts the batch of both.
- `cache_disposal`: `OneLiveLease`, `LogExplainsRow`, `SweepDisposesOnlyExpired`,
  `ExpiredTextIsDisposed`. One message suffices: sweeps treat rows alike and the hazards are of one row met by
  several processes. A lease of two ticks and a delay of one let a lease run out in the middle of a sweep, a
  statement be executed after the lease it was meant for was taken, and a sweep meet refreshed text.
- `live_sync`: `SyncedUpToCheckpoint`, `CheckpointAdvances`, `MailIsIndexed`. Pages of one message with two
  UIDs make every mailbox take several runs; a third message allows an expunged one to be replaced. One
  renumbering is enough for a run on either side and one across it.

- `egress_audit`: `ImplementsLedger`; nothing is sent to the cloud that was not opted into, with a key, and
  redacted, and nothing to a local model that was not configured (`EgressIsConsented`); a candidate that is
  returned has exactly its two events (`ResultsAreAudited`); the audit neither commits nor rolls back the
  caller's writes (`CallerWorkIsLeftAlone`); every authorized request gets an outcome unless its process dies
  or the record of it fails (`OutcomeIsRecorded`). Each of the 17 settings fails one condition of the policy or
  meets it in another way. Two requests of one process follow each other on one connection, which is where a
  transaction that was left open would do harm; a second process only competes for the write lock.
- `index_writer`: a record that is planned to be written can be written, whatever the batch moves to and fro
  (`PlanIsKept`); the counts add up (`InputsAreAccounted`); row, decision and history fit together
  (`IndexIsCoherent`); a replay is unchanged (`ReplayIsUnchanged`); `ImplementsSyncLedger`. Two messages and
  three places allow a move, a move back, a place that is left and taken in one batch, and a clash within a
  batch and with what another batch has written.
- `index_search`: rows that match and do not change are shown once each (`SteadyRowsOnce`), and pages come to
  an end (`PagingEnds`): a row is shown again only when it was given an older date.
- `migration`: the version does not promise what is not there (`VersionIsEarned`); nothing that is committed
  goes away and rows of the queue are converted once (`NothingIsTakenAway`); a database on which a start would be refused
  now (`Stuck`) is between two statements of script 002, or had its version set back (`StuckIsExplained`); unless it
  stays so for ever, which takes a start that was cut off there, the schema gets complete (`SchemaGetsComplete`): `Stuck` is
  true for a moment in every healthy run of script 002, and passing through it is no excuse. Two processes are what it
  takes to set a version back; the scripts are those of the repository, not an instance.
- `ingest`: `ThreadsAreComponents`, `ConfidenceIsEarned`, `DecisionsAreOwn`, `SeedIsComplete`. Three messages
  are the least with a link in the middle that is found last, a duplicate beside a reference, and a subject
  group that headers join in part. Corpora of two go through what rules, hints, colliding fixture ids and
  faulty messages do to decisions, candidates and seeds. `SeedIsComplete` asks for the candidates of messages that are
  persisted as eligible only (`MayBeExtracted`); that the command queues others as well is told below.

Type invariants are proved (§4) and are not repeated in these runs.

### A run that finds a disagreement

`late_run_skips_mail` checks one statement of the repository's documentation that the code does not keep: the
checkpoint "cannot regress or skip an unprocessed lower UID" (`live_adapter.py:163`). A run that began before
a renumbering and ends after it, beside another one, overwrites rows below a checkpoint that is then set
forward again. `SyncedUpToCheckpoint` and `MailIsIndexed` make an exception of that (`setBack`) and hold
otherwise.

### What else was seen

These follow from the models, by a change of an instance or by reading a property's exception; no run is
spent on them.

- One approved row of migration 004 aborts every export run (`exporters.py:151`), and so does, once it is
  exported, a file that is deleted as `docs/ops-runbooks.md:199` says (`exporters.py:97`): with `Migrated`
  rows, or `"revert"` among the `Disruptions`, of `promotion_batch`, `ApprovedIsExported` fails.
- An exporter that dies, or gets an `OSError` after the replacement, between writing late and unlinking leaves
  a withdrawn file (`exporters.py:123`): `StrayFileHasOwner` fails with `"crash"`.
- With more approved rows than the 100 that `get_queue` lists, the oldest are never exported, as exported rows
  stay approved (`queue.py:340`): `ApprovedIsExported` fails if `ListLimit` is below the number of artifacts.
- `run_job` never renews: a job that takes longer than its lease runs twice at once, though "Prevents
  overlapping runs" is the scheduler's purpose (`scheduler.py:4`, `:259`).
- `cache_read` disposes of an entry it saw expired without looking at the expiry again; text written in
  between is lost. `SweepDisposesOnlyExpired` makes the exception.
- A reply and its parent in different pages, or syncs, get different threads (`ingest.py:58`).
- `mpi seed` extracts from the corpus again and reads no persisted decision (`cli.py:399`), and the extractor
  classifies again, without the suppression rules (`extractor.py:73`): candidates of a batch that was rejected
  are queued, and so are those of a message whose row says that it is suppressed, though "the indexed
  `ingest_decisions` row is the source of truth for extraction eligibility" and "downstream extractors must not
  classify the same record again" (`docs/offline-incremental-sync.md:62`). With the invariant that some source of
  each queued candidate has an eligible row, `ingest` fails in its fourth state.
- A candidate that is no semantic artifact (a
  message ID with `=` or `$`, which mail programs use, or no export id) ends every seed at that place
  (`cli.py:405`).
- Messages with `"thread_hint": null` all get the thread id `None` (`threading.py:125`); two messages with one
  `fixture_id` are both judged by the second (`ingest.py:48`), which is why `DecisionsAreOwn` asks for
  distinct ones.
- Null in `references`, `labels` or `headers` raises a `TypeError` out of the whole sync in `threading.py` and
  `suppression.py`, though the mapper admits it.
- `apply_schema_v0` on a migrated database sets `user_version` to 1, and every later start fails at script
  002; so does a start that is cut off there. Calling `apply_all_migrations` again on the connection it raised
  on, which `docs/ops-runbooks.md:207` may be read to suggest, commits a half-done script 004: triggers are
  lost, rows are converted again. `StuckIsExplained` and `NothingIsTakenAway` name both.
- Attachments that SQL sorts otherwise than Python (`content_id` null and empty) are reported as updated by
  every replay (`index_writer.py:296`); with metadata in `Reordered`, `ReplayIsUnchanged` fails. A size above
  64 bits is planned as inserted by a dry run and fails when applied.

### Fairness

- `RunFairness`: a started export goes on to its next step. It is one synchronous function of one process
  that waits for nothing but a database lock with a timeout; a raise is a step. Used where nothing may crash.
- `ExportFairness`: export runs are started again and again, as a scheduled command is; no run is assumed to
  succeed. Reviewers and the operator are never assumed to act.
- `DisposalSpec`: the job is started again and again by its scheduler, a started job goes on, and time
  passes. Crashes and exceptions are bounded by `MaxTroubles`, as a job that dies in every run does nothing.
  Writers and readers are not assumed to act.
- `EgressAudit!Spec`: a started extraction goes on (`Continue`); it waits for nothing but the model and a
  database lock, both with a timeout. Neither callers nor new extractions are assumed to come.
- `IndexSearch!SearchSpec`: a caller who began to page goes on. Syncs are not assumed to happen, or to stop.
- `Migration!Spec`: started commands go on and are started again. `SchemaGetsComplete` assumes that failures,
  crashes and calls of `apply_schema_v0` stop at some time.
- `LiveSync!Spec`: each process goes on with its run, or starts another one. Failures and needless restarts
  are not bounded; `MailIsIndexed` assumes that they stop at some time. Nothing is assumed of the server.

All are weak fairness: each step stays enabled until its process takes it.

## 4. What is proved

TLAPS checks these for every value of the constants that satisfies the named assumptions of the modules: any
number of artifacts, migrated rows, corrections and revisions, of processes, messages, readers, reviewers and
exporters, any batches, any lease time and delay. The assumptions say what sort of value a constant is
(`StoreAssumption`, `SchedulerAssumption`, `ClockAssumption`, `CacheAssumption`, `DisposalAssumption`,
`EgressAssumption`, `PromotionAssumption`, `SyncAssumption`), that `None` and the like are none of
the values they stand beside (`ValueAssumption`, `NoneAssumption`), that a batch is a finite sequence of messages
(`BatchAssumption`), that a corpus is a finite sequence of messages of which no two have one export id
(`CorpusAssumption`; `IndexWriter` has those that do), and, where something is counted, that there are finitely many of it (`Migrated`; the
rows of a search, in `SearchAssumption`). Three theorems assume more, in their statement: no file is deleted by
hand, nothing crashes or fails, no attachments that SQL sorts otherwise. These are the exceptions that
§3 names, under which the property does not hold.

**ReviewStore_proofs.** The inductive invariant is

    IInv == TypeOK /\ HistoryExplainsQueue /\ OutboxFollowsReview

None of the parts is inductive alone. That `Decide` leaves no planned or exported row of an old revision
(`OutboxFollowsReview`) needs that the queue's revision is the number of events, that the event an outbox row
names is where its number says, and that nothing eligible goes over to eligible without passing through
`Withdraw`; all that is in `HistoryExplainsQueue`. That, in turn, needs types for `Append` and for positions.
`StoreInvariant` has one step for each action and part. From it:

- `TypesHold`, `HistoryHolds`, `ReviewBoundaryHolds`: the parts;
- `OneContentHolds`: an invariant on top of `IInv`; a later snapshot of a revision has the same content, as
  its event is unique and append-only (`ContentOfSnapshot`);
- `LifecycleHolds`: an action property, by the same cases;
- `StoreImplementsLedger`: each step of the store is a step of the ledger or changes nothing in it. A decision
  is a `Review`, completing an export a `Publish` (or a stutter, when it is recorded twice), recording a
  removal a `Remove`; enqueueing, reserving and failing are invisible.

**CacheDisposal_proofs**, of leases. `LeaseInv == SchedulerTypeOK /\ LiveLeaseIsRecorded`. Exclusion is not inductive: one
must know that a holder whose lease is not over is the one in the row, with the same expiry. It follows that
nobody can take the row over while that lasts, however late the statement comes (its clock is older, and so
errs on the safe side). From it `LeasesExclude` and `OnlyOwnerUnlocks`,
about `Scheduler` by itself. Of the job: `JobUsesScheduler` shows that the disposal job and its surroundings do nothing to
the lease that the scheduler does not allow, so that `JobLeasesExclude` follows from `LeasesExclude`. The
cache has its own invariant (types and `LogExplainsRow`, each needed for the other: a row with text has been
written since its last disposal, or is from before migration 005); from it `DisposalTypesHold`, `LogExplains` and `SweepsSpareFreshText`.

**EgressAudit_proofs.** `IInv` joins types, consent and `PInv(p)`, which says of each process what its `pc`
implies: that the current request is on record as authorized before the call and the parse, that results are
of earlier requests or of the current one after its completion, which statuses the current request may have
at each step, and that the transaction has no event but the current one. From it `EgressTypesHold`,
`ConsentHolds` (for any settings, not just those of the run), `AuditedResultsHold`, `CallerWorkSurvives`, and
`AuditImplementsLedger`: a commit of the pending event is the ledger's `Authorize`, `Complete` or `Fail`,
sending is `Send`, everything else a stutter.

**Promotion_proofs.** `PInv == StoreInv /\ DeskInv /\ RunInv /\ DiskInv`. `StoreInv` is the store's own
invariant. `DeskInv` says that what a reviewer holds was so once, and is so as long as the revision is the
same. `RunInv` says what an exporter knows of its item at each step: that the row it reloaded is that of a
decision in the history, which need not be the last one any more, and that its reservation is there. `DiskInv`
says that a file has the content that its reservation recorded, and that what the manifest lists has the time of its export
in the outbox, where no later decision clears it.
The parts need each other: that a step of an exporter is one the store allows needs that its item is from the
history, and that this stays so while others act needs that histories only grow. From it:

- `UsesStoreHolds`: every step is a step of `ReviewStore` or leaves the tables alone. So all that is proved of the
  store holds of its real callers; `ProgramImplementsLedger` says so of the refinement;
- `FilesAreApprovedHolds`, `ManifestHolds`, `DecidedOnWhatWasSeenHolds`, `PromotionTypesHold`;
- `ExportedFileOnDiskHolds`, where no file is deleted by hand: an exporter that has written and not yet marked
  finds its file still there (`WrittenIsThere`), as nobody else may unlink that content before it is
  withdrawn;
- `StrayFileHasOwnerHolds`, where nothing crashes and no write fails: a file without a current decision is
  watched by the exporter that wrote it or by its outbox row, step by step until it is gone.

**LiveSync_proofs.** That the checkpoint skips nothing is not inductive: it is set from a batch that was fetched
earlier, for a cursor that was the checkpoint earlier still. `SyncInv` adds that UIDs are assigned in order
(`ServerInv`), that a cursor a run was given stands for what a checkpoint stands for, even if others have set the
checkpoint elsewhere (`CursorInv`), and that, unless the mailbox was renumbered, what is there between that
cursor and the one of the batch is still to be fetched or in the batch (`BatchInv`). From it `NothingIsSkipped`
and `CheckpointAdvancesHolds`; types (`SyncTypesHold`) on their own.

**IndexWriter_proofs.** `WriterInv` joins types, coherence, the state the checkpoint's batch left
(`CheckpointInv`), and for each process: who has the lock (`LockInv`); that its plan in the transaction is that
of records written one after the other on its snapshot (`ReplanInv`); that the tables it writes are the snapshot
with the records so far, or one has failed (`WriteInv`); that before the commit all are written (`CommitInv`);
that the first plan counted each of its messages, as its counts may be returned later (`PlannedInv`); and that
plan, position and counts agree (`CountInv`). `PlanIsKeptHolds`, `InputsAreAccountedHolds`,
`IndexIsCoherentHolds`, `ReplayIsUnchangedHolds` and `WriterTypesHold` follow. For
`ImplementsSyncLedgerHolds`, releasing the savepoint is the ledger's `Apply` of the batch, and all else a
stutter. The ledger speaks of the last record of an export among the first n, so that one record more is one
step of an induction the prover need not do: the invariant takes it.
`SteadyRowsOnceHolds` is about `IndexSearch` on top of `WriterInv`: what is shown of steady rows is what is
not beyond the cursor, in the order of the query.

**Migration_proofs.** The scripts are those of the repository, so that this proof first says what each
statement makes and needs (`Script1Is` to `QueueEffect`). `MigrationInv` holds as long as no failed script was
committed (`~halfDone`): what is committed is all that the scripts up to the version make, and what a later
one is the first to create is there only if the version says so, or was set back, or is that of 002 (`DbInv`); one
process writes (`Alone`); and a process has behind it what its place in the loop promises, with its
transaction half way through its script, on the database as it is (`ProcessInv`, `Halfway`). Other processes only
add to a database under a process that does not write, and leave it alone under one that does (`Grows`): that
is how each part survives the others' steps. From it `VersionIsEarnedHolds`, `NothingIsTakenAwayHolds` and
`StuckIsExplainedHolds`.

**Ingest_proofs.** What a loop computes takes induction, and the library states induction for an operator, which
these provers do not instantiate. It also states it for a set: a well-founded relation gives every set a least
element (`WFMin`). From that come least and greatest numbers, induction over a set of numbers (`Induction`), that a
loop has a result after each round (`LoopExists`) and keeps what each round keeps (`LoopStays`), and that what each
round lets grow has grown in the end (`GrowsAlong`).

*Union-find.* `parent` is a forest if every non-empty set of messages that is closed under `parent` has a root in it
(`Forest`): this is what "no cycles" means without counting, it gives `Root` a value (`RootExists`, `RootStep`), and linking one root under
another keeps it (`LinkRoots`). Two facts about the tree carry everything. It only merges (`Grows`); and a set of
messages that every link stays inside or outside of is never left by a `Union` (`Respects`). So, after the loops, who
is linked is together because the link was met and nothing was parted since, and whoever is together is connected,
because a set that is closed under the links has been respected by every round (`AllLinksAreComponents`). For the
confidence, the same is kept of the explicit links alone (`HeadersMakeExplicitLinks`), with what the fallback
recorded: a message is in `fallback` only if it is with one that
headers do not have it with, and whoever the fallback brought together is with such a message (`Tracks`). `Related` and `SameSubject`, of
which the property speaks, know no order; that the code's order, its first owner and its last holder of a message ID,
come to the same is `RelatedAreTogether` and `ClosedIsUndivided`.

*Threads.* Groups partition the messages (`GroupsAreClasses`), and each has a place of its own in the order of the
least fixture id: distinct groups have distinct ones, and the count of those before fills 1 to the number of groups
(`PlacesAreTaken`). So the sequence has every group once (`ThreadsOfGroups`).

*The command.* The inductive invariant is

    IngestInv == IngestTypes /\ DecidedTogether /\ SyncedIsDecided /\ NothingIsDropped /\ DoneIsQueued

`SeedIsComplete` is not inductive: that everything is queued at the end needs that, before, everything was queued or
still to do (`NothingIsDropped`), and that `threads` are those of the corpus as it is. `DecisionsAreOwn` needs that
rows do not outlive a correction: either none is written, or all were, of this corpus, and then it is usable and
there is nothing to correct (`DecidedTogether`). From it `ThreadsAreComponentsHolds`, `ConfidenceIsEarnedHolds`,
`DecisionsAreOwnHolds` and `SeedIsCompleteHolds`, for corpora of any size with any links, duplicates and collisions.

### What the proofs found in the models

- `CASE`s whose guards overlap have no definite value: TLC takes the first that is true, and the prover did not.
  In `IndexWriter`, `EgressAudit`, `Ingest` and `Promotion` such definitions are now chains of `IF`, in the order
  of the code's `if`s.
- `PlanIsKept` said more of messages that are rejected, and of records after a failed one, than holds of the
  code; it speaks of the others now.
- Coherence needs that a batch is a sequence of records of the declared kinds, and paging that the table is
  finite; neither was an assumption.
- The loops of `Ingest` were folds with an operator, of which nothing can be proved here; they are recursive
  functions now, one for each loop of the code. That a corpus is not empty was assumed and neither true nor needed.

### What stays with TLC

- Liveness (`LateFileIsUnlinked`, `ApprovedIsExported`, `ExpiredTextIsDisposed`, `MailIsIndexed`,
  `OutcomeIsRecorded`, `PagingEnds`, `SchemaGetsComplete`): fairness
  and `ENABLED` are out of the prover's reach.
- `CheckpointSkipsNothing`, which does not hold.

## 5. What is not modelled

- In the index: participants, labels, flags and attachments one by one (they are one metadata value), and
  the read-only queries `related_messages` and by attachment.
- The mapper field by field: a message is accepted, rejected or unreadable. Which words the extractor, the
  classifier and the suppression rules look for: a message has the signal or has not.
- Contract validation field by field: where it changes the course of things, a candidate is valid or not.
- Prompts and the parsing of answers: one choice between an answer that parses and one that does not.
- `acquire_lock` and `release_lock`, which only tests call.
- The `JobEvent`s of a run, which are returned and not stored.
- Denied cache requests and the audit of reads: no row changes.
- Doctor, runtime profile, raw source fetch, and the scripts of the repository's CI: no state of their own, no
  order of events.
- Formats: Markdown, hashes, identifiers and time stamps. A hash is taken to tell contents apart.
- Durability of SQLite itself: a transaction that returned is committed, one that did not is not there.

## 6. Plan

Modelling follows what the program promises to people: nothing unreviewed leaves, what is withdrawn goes,
private text expires, no mail is lost, nothing is sent that was not consented to. What is left:

1. Corollaries across modules, as `ProgramImplementsLedger` is one: what leases promise to any job.
2. **IndexSearch** on more than one page at a time, and `release_lock` if it gets a caller.
