# A TLA+ model of the multi-source data pipeline

The repository is a data pipeline in two generations. V1 (`ingestion/`,
`processing/`, `orchestration/`, `analytics/`) runs on Airflow, Spark, Flink and
dbt; `aws-native/` is the same pipeline rebuilt on S3, Lambda, Glue, Kinesis and
Iceberg with stronger publication and ordering rules. Its claims are about what
happens when things are retried, replayed, reordered, killed half-way or run
twice at once: the kind of claim a unit test states for one schedule and a
model checker for all of them. This directory holds TLA+ models of that control,
TLC runs over small instances and TLAPS proofs for all instances.

Paths below are relative to `src/`.

## 1. The system

```
 PostgreSQL ─┐                          ┌─ verify ── Silver job ── ref_* tables ─┐
 REST API ───┼─ extract ─ publish ─ Bronze manifest                             ├─ dbt Gold
 files ──────┘      │                   └─ backfill validation                   │
                    └─ quarantine                                                │
 PostgreSQL log ─ DMS / Debezium ─ stream ─ CDC writer ── core_* tables ─────────┘
```

| Part | State | Operations | Interacts by | Hard behaviour | What makes it correct |
|---|---|---|---|---|---|
| Extractors (`aws-native/mdep_ingestion/extractors.py`) | none | paged REST reads, SQL and file reads | a source that answers, fails, changes | retries, page loops, limits | a walk ends; it is complete or refused, never cut |
| Ingestion pipeline and schedules (`pipeline.py`, `runtime.py`, `orchestration.py`, the DAG, the Lambda, `mdep_platform/registry.py`) | none of its own | one source operation: extract, enrich, publish or quarantine | calls publication; tasks are retried whole | a task of four operations fails half-way and runs again on a source that has changed, beside invocations of the same identity | what is reported is what is committed; a source that holds still is refused in one way, or by no one |
| Bronze publication (`publication.py`, `object_store.py`) | two objects per logical run identity: data, manifest | `publish`, `committed_manifest`, `list_committed` | conditional puts on a shared store | concurrent callers, retries with other bytes, crash between the two objects, lost answers, a client that resends | a manifest that can be seen is readable; a success is never taken back; one publisher per identity; retries succeed |
| Manifest verification (`mdep_silver/manifest.py`) | none | `verify_committed_batch` | reads the store; Spark reads the object again | publishers that go on, failed reads | what Spark reads is what was verified; what was reported verifies |
| Silver job (`mdep_silver/spark_job.py`) | reference table, quarantine, reconciliation | `process_verified_batch` | manifest key in, three MERGEs out | three commits that are not one transaction, concurrent and repeated jobs, late batches | rows only advance; a recorded manifest is finished; replays change nothing |
| Backfill validation (`mdep_silver/backfill_validation.py`) | one report object | `validate_backfill` | reads manifests and tables | tables move on while it reads and before it reports | no false alarm; a stored report stays true |
| CDC adapter and writer (`mdep_cdc/`) | current-state row and quarantine per key | `parse`, `decide`, `apply`, `apply_iceberg_event` | at-least-once stream in, Iceberg MERGE out | any delivery order, replays, tombstones, crash between read and MERGE | no event lost silently, the newest change owns its key, no resurrection |
| Gold (`aws-native/gold/`) | `fct_orders` | incremental merge, two delete macros, the bridge load | reads Silver | Silver moves between reads, and between a guard and its delete; two notions of "newer" | a run over a quiet Silver is current; rows never go back; only orders that are gone leave |
| V1 Bronze (`ingestion/batch/`) | two objects per run | `publish`, `land_*` | the store | crash between the objects, sources that change between attempts | whole data behind a manifest; true results; retries complete |
| V1 Silver (`processing/spark/`) | tables, quarantine files | `run` | reads Bronze paths | overlapping and repeated windows, files that arrive late, overwrite of quarantine, then MERGE | the freshest record merged; windows side by side leave nothing out |
| V1 Flink CDC (`processing/flink/`) | keyed state, checkpoints, sinks | `version_decision`, `process_element` | Kafka in, files and Iceberg out | restore and replay, messages that raise | current state of the log; nothing lost; the job goes on |
| Deployment, demos, fixtures, V1 warehouse | - | - | - | - | not modelled |

`PROJECT.json` lists every part with its status, and under "hazards" the places
where the code can go wrong in ways a test would hardly reach, with the
properties that would notice.

## 2. Modules

| Module | Models | State | Actions |
|---|---|---|---|
| `CdcOrdering` | `mdep_cdc/ordering.py`, `models.py` | none | `ComparePositions`, `Decide` keep the early returns of `compare_positions` and `decide` in their order; `Precedes` is the source order of ADR-0003 they are held against |
| `DmsAdapter` | `mdep_cdc/dms_adapter.py` | none | `Refused`, `PositionOf`, `Parse`; `EventsOf` makes the log of the runs of `CdcLedger` from DMS records |
| `CdcStateStore` | `mdep_cdc/state_store.py` | `state`, `quarantine` | `Apply(e)`: one transaction on one connection, then the result; `ApplyUnanswered(e)`: the process dies between the two. The abstract specification of the next module (ADR-0003 calls the store the executable oracle) |
| `CdcLedger` | `mdep_cdc/iceberg_writer.py` | `table`, `quarantine` and a writer's `pc`, `job`, `decision` | `ReadRow`, then `MergeRow` or `MergeQuarantine`, each a Spark action of its own, then `Return`; `Crash` between any two. `committed` holds the events whose effect is in the tables, `handled` those the caller has a result for |
| `CommitOnce` | what publication promises | `committed`, `acks` | `Publish`, `CommitUnnoticed`, `Confirm`: a write-once register. The abstract specification of the next module |
| `BronzePublication` | `mdep_ingestion/publication.py` over `object_store.py` | two objects; per caller the next store call and its local variables | one action per store call (`HeadManifest`, `PutData`, `ValidateData`, ...), faults and crashes inside them |
| `BronzeReader` | `mdep_silver/manifest.py` beside the publishers of `BronzePublication` | the reader's next call, what it claimed, verified and consumed | `StartVerify`, `ReadManifest`, `FindData`, `ReadData`, `Consume` |
| `SilverMerge` | `mdep_silver/spark_job.py` and its Glue entry point | three tables; per job the next Spark action, its batch and its counts | `Start`, `Classify`, `MergeBusiness`, `MergeQuarantine`, `Record`, `Acknowledge`, `Crash` |
| `BackfillValidation` | `mdep_silver/backfill_validation.py` and its EMR entry point beside the jobs of `SilverMerge` | the cached table, the report object, the verdict | `Validate`, `WriteReport`, `Abort` |
| `RestExtraction` | `extract_rest` and the other extractors, `rest-api/app.py` as the source | none: a walk is a record | operators `TakePage`, `Follow`, `TryAgain`, `GiveUp`; `TakeFile`, `TakeRows` |
| `AwsIngestion` | the DAG, the Lambda, `RegistryRunner.execute`, `IngestionPipeline`, `QuarantinePublisher` over `RestExtraction` | sources, one object per identity, evidence, events; per caller its walk, outcome and results | `Get`, `ReadAll`, `Reject`, `Publish`, `PublishFails`, `Report`, `Crash`, `CompletionSummary`, `Change` |
| `GoldOrders` | `fct_orders` and what it reads, the delete macros, `run_integrated.py` | Silver, the tables dbt reads, the fact, the selected rows | `Load`, `Select`, `Merge`, `CountDeletes`, `DeleteAbsent`, `DeleteTombstoned`, `Interrupt`; `Change`, `CorrectRate` |
| `SilverBatch` | `processing/spark/silver_batch.py`, `contracts.py` | clock, Bronze records, table, quarantine; per run its window and input | `Tick`, `Stamp`, `Land`, `Load`, `WriteQuarantine`, `Merge`, `Crash` |
| `FlinkCdc` | `processing/flink/flink_cdc_job.py`, `cdc_model.py` | topics; running, checkpointed, pending, staged and committed state | `Process` (a tombstone, a rejected value or an event), `Raise`, `Checkpoint`, `Commit` of each sink, `Crash` |
| `BatchBronze` | `ingestion/batch/bronze.py` | two objects, the configured store; per attempt the next step | `Check`, `PutData`, `CopyData`, `PutDataRefused`, `PutManifest`, `Return`, `Fail` |

`MC<Module>` gives a module its small instance and each `.cfg` is one run;
`<Module>Proofs` holds the theorems about it, and about the module composed with
it: `CdcLedgerProofs` covers `DmsAdapter`, `BronzePublicationProofs` covers
`BronzeReader`, `SilverMergeProofs` covers `BackfillValidation` and
`AwsIngestionProofs` covers `RestExtraction`. The data are abstracted to what
the code compares: a payload is its source content and its ingestion stamp (a
checksum is the payload, SHA-256 being taken as collision-free), a Silver row is
its key, the four fields `newer_than_sql` orders by, its locator and its
rejection reason, a CDC event is its coordinate, operation and record hash, and
a Kafka value is an event or the kind of thing the parser makes of it.
Definitions introduced by a comment "Mutant:" are wrong variants of the
definition that follows them. They are used by no specification; substituting
one must break the property `PROJECT.json` names for it.

### Change stream

A source coordinate is a snapshot or a change with LSN, transaction and record
id. `CdcLedger` reads the row, decides from what it read, and then runs a MERGE
that does not compare again. `table` keeps the physical columns: there is no
phase column, a snapshot is a sentinel in `source_lsn`, and `CurrentPosition`
rebuilds the coordinate as `_current_position` does. `Events` is the source log;
`ReadRow` may take any of its events at any time, which is at-least-once delivery
in any order. `OneCanonicalWriter` is an assumption of the module: principle 3
of `aws-native/architecture.md` calls for one writer per table, and with two
the properties do not hold, because the second MERGE would install what was
decided from a row that is gone.

The log itself comes from `DmsAdapter`: a record without a field the adapter
needs is refused and gives no event, and one that is a full load has no
coordinate whatever its metadata says. What a consumer does with a refusal is
not in the repository.

### Bronze publication

One logical run identity is one data key and one manifest key, so one instance
is one identity. Each call of the store client is a step, callers interleave
between them, and a fault is a choice inside the call it hits: `read` and
`write` failures, a put whose answer is `lost`, a put `resent` by the client and
refused by the object it created itself, a refusal by a concurrent put
(`race`), and a `crash` anywhere. `LocalObjectStore` creates a file and writes it
afterwards, so on the local store a put is two steps and readers may see
`Partial`.

`BronzeReader` adds a Silver job or validator that is given the manifest key at
any time. Verification reads the manifest, then the object, and Spark reads the
object a third time by its path; nothing but the immutability of published
objects makes the third read see what the second checked.

### Ingestion

`AwsIngestion` is one logical run: tasks ingest their entities in order and
begin again from the first when anything raises; invocations ingest one entity
each, at the same time. A GET is a step, so the source may change between two
pages. A publication is one step on the identity's object, because
`BronzePublication` implements the write-once register `CommitOnce`; what a
publication that is cut short may leave (`Leftovers`) is kept, since retries
depend on it.

Each caller has its own limits (a table is read up to 100 000 rows by the DAG and
50 000 by the Lambda, a paged source up to the registry's `max_pages`, or one
page), so one source may be too much for one caller and not for another. An
error carries what `SourceError` does, a reason, a locator and the original, and
the extractors differ in where they count and validate: page by page, fetch by
fetch, or the count first (`TakePage`, `TakeRows`, `TakeFile`). Evidence is a set
of identity, time, reason, locator and original, because its key is the hash of
those (`publication.py:183`): outages that differ in status or text leave an
object each, and so does a rejection met at another time.

### Silver job

A batch is a manifest and its rows, already verified. The job classifies its
winners against the table (a read), merges them (a second read inside the MERGE,
one serializable Iceberg commit), merges rejected and losing rows into
quarantine, and last inserts the reconciliation row. Any job may run any batch
any number of times, and may die between the steps. `merged` and `acked` are
history variables. The Glue job is deployed with a concurrency of one; the model
lets two run, since nothing in the job itself prevents it and its guarantees
turn out not to depend on it.

`BackfillValidation` validates a set of batches while the jobs go on: the rows
are cached and judged in one step, the newest snapshot's id is read and the
report written in a later one. A snapshot is named by its contents, which is
enough because rows only advance.

### Gold

`source` is what dbt reads, and `Load` brings one of its two tables up to date,
so orders and rates may be of different moments. `Select` and `Merge` are the two
statements of an incremental run; `CountDeletes` and `DeleteAbsent` those of the
snapshot delete. The version of the exchange rate stands for the four fields the
model compares in turn.

### V1 Silver job

A record is stamped when it is extracted and can be read only once its file is
published. A run lists the files, keeps its window, overwrites quarantine and
merges. Spark replaces the whole output path in the default static mode, which is
`Overwrite`.

### V1 Flink job

`live` is what the running job has consumed and its keyed state, `saved` the
same in the last checkpoint, `pending` what the sinks have been given since,
`staged` what the checkpoint covers and is not committed yet, and `committed`
what readers see. The file sinks count every message they are given, so writing
one twice would show. Failures go back to `saved` and are limited by
`fixed_delay_restart(3, ...)`; a value on which an operator raises fails the job
on every attempt.

### V1 batch publication

Every attempt extracts anew and stamps its rows with `ingested_at`, so an
attempt stands for the records it would write. There is one put if absent for
each object, preceded by existence checks. Over S3 a put is atomic and may have
been resent; over the local store it creates the file and then copies into it.

## 3. Runs

| Run | Instance | Distinct states | What it shows |
|---|---|---|---|
| `cdc_ledger` | 7 events of 2 keys, 1 writer | 1 098 685 | no event is lost, the newest owns its key in whatever order they came, deleted keys stay deleted, rejected events stay rejected, and the writer implements the reference store |
| `cdc_ledger_live` | 5 events of 1 key | 11 921 | each key settles on its newest change while older ones may be replayed for ever |
| `bronze` | 2 callers, 2 calls each, 2 contents, 2 stamps, 2 faults, either store, a reader | 633 150 | manifest-last publication is a write-once register whatever is interrupted; what a reader verifies is what Spark reads, and what was reported verifies |
| `bronze_retry` | 2 callers, 3 calls each, 1 content, 2 faults, either store | 36 659 | on S3 callers with the same content all succeed in the end, so nothing an interrupted call leaves blocks the retry; on the local store one does unless a half-written object stays |
| `silver_merge` | 2 batches, 12 rows of 4 keys, 2 jobs, any number of runs, a validation | 120 674 | the table only advances and never misses a merged row, a recorded manifest is finished, replays keep its first result, a report stays true and a clean backfill is never refused |
| `ingestion` | 1 task of a table, a file and a paged source with 2 retries, 1 invocation with a lower page limit; 2 faults, 1 change of a source | 719 379 | what is reported is committed and stays, what is stored is whole, a source that holds still is refused in one way and then stored by nobody when its content is bad, every caller ends, a source that holds still is ingested |
| `v1silver` | 3 runs over 2 hours, 2 records, 1 death | 462 254 | the table holds the freshest record any run merged; hours side by side cover Bronze |
| `v1silver_evidence` | 2 dates | violated | a run deletes the quarantine evidence of the other dates |
| `gold` | 2 orders, 3 changes with any business time, 2 rate corrections | 36 019 | a run over a quiet Silver leaves the fact current, rows never go back, only orders that are gone leave |
| `flink_cdc` | every topic of 3 messages over 5 kinds and of 3 over 3 more, beside a second entity; 2 crashes, 3 restarts | 99 757 | evidence exactly once, Silver equal to the checkpointed state, that state the newest change, no committed row replaced by an older one; everything archived and the newest change in Silver in the end |
| `flink_unreadable` | 1 value that raises | violated | such a value stops the job, and nothing behind it is archived |
| `batch_bronze` | 4 attempts, 3 failures, either store | 40 788 | on S3 a manifest means whole data; on both stores the first object stays, results are true and one surviving attempt completes the publication |

Three further configurations belong to no run of `PROJECT.json`. Two reproduce a
divergence described below: `MCBronzeReadFault.cfg` (with `MCBronzePublication`)
and `MCBatchBronzeManifest.cfg` (with `MCBatchBronze`). `MCBackfillReport.cfg`
(with `MCBackfillValidation`, 114 772 states) adds an earlier ingestion of the
backfill's content to one job and checks `ReportHolds`: the instance that shows
why it says no more than it does (divergence 6).

### Why the bounds are enough

*CDC.* The log has each relation two coordinates can have: snapshot and change,
both orders of a transaction, a delete, a second rendering of one event, a
different event at one coordinate, an equal LSN of another transaction, and a
key whose delete may come first. Delivery is unbounded. The theorems below cover
all logs.
*Bronze.* Two callers with two calls each give every race of the two puts
and a retry after it; two faults allow one to hit the recovery from another.
Two contents and two stamps separate equal bytes, equal content and divergence;
a run uses one store throughout. `bronze_retry` needs one content (divergent
callers are told so for good) and one call more than faults.
*Silver.* The second batch is newer than the first on one key by extraction
although ingested earlier, older on another by ingestion and on a third by
extraction, and tied up to the hash on the fourth; it has an older row before a winner, identical occurrences and a rejected
row. Jobs restart without bound, and the validation is asked for the clean batch
alone or for both.
*Ingestion.* The paged source may have two pages, one, three where two are
allowed, a refused record, or links that lead back; the table may hold a good
record, a refused one in its first fetch with another fetch to come that is over
the limit, or too many; the file a good record or a refused one. The invocation
may read one page where the task may read two. Two outages and a refusal tell a
source's own errors from the network's. Two faults and a change fall anywhere:
between two pages, between data and manifest, between two entities of the task;
the task has the two retries of the DAG. The invocation races with it for the
paged source.
*V1 Silver.* Two records may be two versions of a key or the same one stamped
twice; two hours and the unbounded window overlap in every way three runs can.
*Gold.* Three changes give a later LSN with an earlier, equal or later business
time, and a delete followed by an insert.
*Flink.* Three messages are an event, one that competes with it, and what
follows; the crash budget is below the restart budget in the passing run, so
that the end of restarts is reached only by values that raise, and by crashes
plus such values.
*Batch.* Four attempts with three failures: every step of an attempt is
interrupted while a second races and a third recovers.

`CHECK_DEADLOCK FALSE` is set where the program really ends: the Flink job has
read everything or has used its restarts, and every batch attempt has returned
or failed. In the CDC and Silver models work can always be delivered again, and
in `BronzePublication` the disjunct `Done` marks that every caller has used its
calls.

### Fairness

* `CdcLedger`: strong fairness of reading an unhandled event and of its MERGE,
  weak fairness of the end of a call whose MERGE has committed. A Kinesis record
  is delivered until the consumer's checkpoint has passed it, and a writer is
  not killed before its MERGE every time; that end may be a death each time, so
  an event may be redelivered for ever. Nothing makes a writer crash or stops
  replays of handled events.
* `BronzePublication`: weak fairness of the next store call of a running
  caller and of `Retry`. `compact_or_raise` raises on FAILED and CONFLICT and
  the scheduler runs the task again; a call never waits on another caller.
* `FlinkCdc`: weak fairness of reading each topic, of checkpoints and of each
  sink's commit, all of which the runtime does while the job runs. A crash is
  never forced.
* `BatchBronze`: weak fairness of each attempt's steps; the DAG retries a
  failed task and an attempt that is not killed goes on.
* `AwsIngestion`: weak fairness of `Progress`, the disjunction of all callers'
  steps and the completion summary: something that can run is run. Which caller
  runs is not constrained; every behaviour has finitely many steps before all
  callers have ended, so nothing stronger is needed. Faults and changes of
  sources are never forced.
* The safety runs use specifications without fairness, except where one
  configuration checks both kinds of property. `SilverBatch`, `GoldOrders`,
  `SilverMerge` and `BackfillValidation` state no liveness: nothing in the
  repository schedules those jobs to run again until they succeed.

### Where the code and its documents part

Two are runs that end in a violation:

1. `flink_unreadable`. `flink-cdc-job.md:96`: "Raw CDC evidence is archived even
   when parsing fails." Only `ValueError` is caught; JSON that is not an object
   raises `AttributeError` in the Bronze map itself, again after every restart.
2. `v1silver_evidence`. `silver_batch.py:160`: "overwrite one deterministic
   logical-date partition". `build_spark` leaves the static overwrite mode, in
   which the write replaces everything below the entity's quarantine path, so
   each run deletes the evidence of all other dates.

The others were met while modelling:

3. A failed `get_bytes` of an existing object is reported as CONFLICT, a failed
   `head` as FAILED, so one transient read error makes an identical replay a
   conflict, which `architecture.md:100` says is a verified no-op.
   `MCBronzeReadFault.cfg` shows `ConflictMeansDivergence` violated.
4. The V1 manifest is written from the records of the attempt that writes it
   (`bronze.py:213`), also when the data object is an earlier attempt's: record
   count and payload hash then describe records nobody stored.
   `MCBatchBronzeManifest.cfg` shows `ManifestDescribesData` violated.
5. `object_store.py:1` promises "Matching immutable-object semantics for local
   filesystems and boto3 S3". The local store opens with `"xb"` and then writes:
   the object is visible before its bytes are, and stays half-written after a
   crash. `ObjectsImmutable` and `ListedIsReadable` are therefore stated of S3;
   `AcksDurable`, `ConsumedIsVerified` and `ImplementsCommitOnce` hold on both.
6. `aws-08-interview.md:30`: "Exact replay yields byte-identical JSON." The
   snapshot id is read after the validated rows were cached
   (`backfill_validation.py:265`), so while jobs merge, a replay of the identity
   may report another snapshot or other counts and is then refused as an identity
   conflict. `ReportHolds` states what remains true of the stored report. It does
   not say that an approved row is still there or has given way to one that is
   newer by the job's comparison, as `backfill_validation.py:229-236` suggests.
   That is false when the same source rows were also ingested earlier: the
   earlier row stands in the table and is counted "exact" by its hash, and may
   then give way to a row that beats the earlier ingestion and not the approved
   one. Source version and extraction time never go back; that is what
   `ReportHolds` says and what is proved.
7. The bound `maximum_delete_fraction` is tested on a count and the delete
   repeats the anti-join afterwards (`apply_verified_order_deletes.sql:33`): a
   source that shrinks in between loses more orders than the bound allows.
   `OnlyGoneOrdersLeave` states what holds.
8. Gold decides by business time first (`fct_orders.sql:43`): an order whose
   newest change carries an older `updated_at` stays as it was, and neither it
   nor a corrected rate reaches Gold until a later time arrives. This is decision
   0002; it is the one exception `RunIsCurrent` allows.

`CompletedIsWhole` is stated of S3. On the V1 local store an attempt that finds
the data object writes the manifest whether or not the one that created it has
finished copying, so a completed publication may rest on a half-copied file
(compare `bronze-batch-publication.md:93` and `:95`).

## 4. Proofs

TLC settles the instances above; the theorems hold for all values of the
constants under the named assumptions of the modules.

| Module | Theorems (property) |
|---|---|
| `CdcLedgerProofs` | `TypeCorrect`, `NoEventLost` (`EventAccounted`), `RowIsNewest` (`NewestWins`), `RejectionIsFinal` (`QuarantinedNeverCurrent`), `ArrivalOrderIrrelevant` (`OrderIndependent`), `NoResurrection` (`CheckpointAdvances`), `LedgerImplementsOracle` (`ImplementsOracle`), `CompareDecidesSourceOrder`, `AdaptedRecordsAreEvents`, `AdaptedOrderIsStreamOrder` |
| `BronzePublicationProofs` | of the publishers: `TypeCorrect`, `SuccessIsDurable` (`AcksDurable`), `OnePublisher` (`AtMostOnePublishes`), `CommitBoundary` (`ListedIsReadable`, S3), `ObjectsNeverChange` (`ObjectsImmutable`, S3), `PublicationIsAtomic` (`ImplementsCommitOnce`); with a reader: `VerifiedIsWhatSparkReads` (`ConsumedIsVerified`), `CommittedIsNeverRefused` (`ReportedVerifies`) |
| `AwsIngestionProofs` | `TypeCorrect`, `NothingIsTruncated` (`StoredIsWhole`), `ReportsAreOfCommitted` (`ReportedIsCommitted`), `SourceIsRefusedOnce` (`RefusalsAgree`), `WalksAreBounded` |
| `SilverMergeProofs` | of the jobs: `TypeCorrect`, `NoFresherRowLost` (`FreshestWins`), `TableNeverGoesBack` (`RowsAdvance`), `ReplaysKeepTheResult` (`FirstResultStands`), `MergedBatchesValidate` (`BackfillAccepts`), `AcknowledgedIsFinished` (`RecordedIsFinished`); with the validation: `ValidationOnlyReads`, `ReportsStayTrue` (`ReportHolds`), `CleanIsNeverRefused` (`CleanIsValidated`) |
| `GoldOrdersProofs` | `TypeCorrect`, `QuietRunIsCurrent` (`RunIsCurrent`), `FactsNeverGoBack` (`FactsAdvance`), `LiveOrdersStay` (`OnlyGoneOrdersLeave`) |
| `SilverBatchProofs` | `TypeCorrect`, `RowIsFreshestMerged` (`FreshestMerged`), `NoRecordLeftOut` (`WindowsCoverBronze`) |
| `FlinkCdcProofs` | `TypeCorrect`, `EvidenceIsExactlyOnce`, `SilverFollowsState` (`SilverIsState`), `NewestVersionWins` (`StateIsNewest`), `SilverAdvances` (`CommittedAdvances`) |
| `BatchBronzeProofs` | `TypeCorrect`, `CompletionIsWhole`, `ResultsAreTrue` (`ResultsTellTheTruth`), `FirstObjectStays` (`FirstObjectCanonical`) |

**CDC.** Assumed: the log consists of well-formed events, one canonical writer,
a missing row is no row. None of the properties is inductive alone, since a
writer acts on a row it read earlier. `IInv` adds `WriterInv`, which says that the
decision a writer holds is the one the present row gives (true because nobody
else writes) and that, once its MERGE has committed, the event is a duplicate of
the row or a rejection already in quarantine; and `LedgerInv`, which relates each
event that took effect, each row and each quarantine record. It speaks of
`committed`, not of `handled`: a row may stem from an event whose writer died
before it returned, and what is said of the events returned for follows, since
they are among those. Three steps move `LedgerInv`: a duplicate, a rejection and
an application. They rest on `CompareDecidesSourceOrder`: `compare_positions`
answers as the source order for every pair of positions, the partial cases
included. `StepRefinement` maps a MERGE to an `ApplyUnanswered` of the oracle, the return
to an `Apply` that finds the effect in place, and a death to a stutter. That the log consists of
well-formed events is what the adapter gives: `AdaptedRecordsAreEvents` for any
records, and `AdaptedOrderIsStreamOrder` shows that joining the halves of an LSN
keeps their order, since the low half is below `Word`.

**Bronze.** Assumed: the kinds of fault, and that absent and half-written objects
are no payloads. `IInv` = `TypeOK`, `CallerInv` (what a caller has inspected is
stored), `CommitInv` (the two promises about successes) and `StoreInv`. What any
action does to objects and successes is one of five `Effect`s
(nothing committed, data arrives, a manifest arrives, a call publishes, a call
confirms); `EffectStep` proves that once, and the invariant, immutability and the
refinement each need only the five cases. `ReaderInv` says what a reader between
two of its reads knows: a manifest it has read is the stored one, data it has
verified are the stored data and those it consumes, and a reader that knows of a
success is not refused. The publishers keep it because no action replaces a
committed object; on the local store that is not immutability of every object
but of one that a manifest describes.

**Ingestion.** Assumed: the callers and limits are those of `CallersAssumption`
(the tasks of the DAG share theirs) and `LimitsAssumption`, each source is a
sequence of records (`Payload`) with or without a loop, no object is no object
(`SourcesAssumption`), and no outage is reported under a reason that stands for
what a source holds (`AnswersAssumption`). `Types` gives every variable its type
and says of each walk that it has accepted all it has read, and seen the pages
up to its own and no more than its caller may. Three invariants stand on it.
`ReadInv`: while no source has changed, a walk has read exactly the pages before
its own and a complete one the whole source; `TakePageOK` is the arithmetic of
one page, for every page size. `CommittedInv`: a success a caller holds, has
returned, sent as an event or handed to the summary is committed; `BatchesStay`
says that no step of any caller replaces a committed batch. `VerdictInv`: what
ends a walk at a page depends on the source, the page and the limits alone
(`PageVerdict`), not on the attempts that led there (`SameVerdict`, from
`ReadInv`), so a source has at most one error for given limits (`OneVerdict`),
every piece of evidence of what a source holds is that error, and one that is
refused for its content is whole in no object (`ContentVerdict` against
`StoredIsWhole`). `WalksAreBounded` is the safety half of termination: each GET
uses up one of a fixed number.

**Silver.** Assumed: batches are finite, manifests identify batches, locators
identify rows. `RankingIsTotal` and `EveryKeyHasAWinner` (by the finiteness of a
batch) show the window ranking picks exactly one row per key that no valid row
beats. `JobInv` ties a running job to its batch and step, so that the MERGE is of
those winners; a MERGE leaves every row at least as fresh as it was
(`CoversAdvances`), whatever other jobs committed since the classification,
because it compares again. That is where the CDC writer and this job differ, and
why this one needs no assumption about concurrency. `FinishedInv` follows
a batch through the commits after that: past the quarantine MERGE every rejected
and losing row has its evidence, before the acknowledgement there is a
reconciliation row, and each such row is of a batch that is merged, in evidence
and counted right. `ValidationInv` ties
the cached table and the report to the present table: every row counted is a row
of some batch (`Sourced`), and each row has only advanced since (`Advanced`).
`HashAssumption` is used here: rows of one key and hash have the same version and
extraction time, because both are part of the hashed content
(`models.py:224`, `extractors.py:121` and `:216`).

**Gold.** Assumed: times, rates and LSNs are numbers, no row is no row.
`OrderInv` says that what dbt reads was in Silver before: the rows it sees are no
newer than Silver's, and a fact or staged row is of an order it sees and no newer
in LSN or rate. `StagedInv` says that a staged row still beats the fact when the
MERGE comes, and `QuietInv` that, while Silver has not moved since the build began,
each live order is current in the fact or will be by the pending MERGE.

**V1 Silver.** Assumed: an item's version, extraction time and hash are numbers. `RecordsInv` relates stamps, files and the
clock (no stamp is ahead of it, hash and stamp identify a record), `RunInv` says
that a run's input is its window of files that had landed, and
`TableInv` that a row is the freshest of all that finished merges were given. The
last is inductive although windows overlap and repeat, because the MERGE compares
by the order the ranking uses.

**Flink.** Assumed: the topics hold parsed events or one of the four other kinds.
`NewerTransitive` and `OldStaysOld` are the facts about the partial order
of positions everything else rests on: a message that was not newer than a
version is not newer than any version that replaces it, so a replay after a
restart is passed over, although two events may be incomparable. The invariant
`IInv` says more than the four properties: `EvidenceInv` and `SilverInv` also
account for `pending`, which holds exactly the messages and changes between
the checkpoint and the running job, and `AdvanceInv` orders committed row,
checkpointed version and live version. A checkpoint and a failure then shift
what is where without creating or losing anything.

**V1 batch.** Assumed: a missing object is no attempt. `AttemptInv` says what an
attempt past a step knows of the objects; since no object is ever replaced,
nobody else can take it away.

The runs check `TypeOK` only where a mutant of the code can break it (the
restart count of the Flink job); for every module with proofs it is a theorem.
`AtMostOnePublishes` and `BackfillAccepts` are theorems that no run repeats.

Every safety and action property the passing runs check is a theorem. Only
model-checked are the liveness properties `RetriesSucceed`, `RetriesComplete`,
`CallersEnd`, `RunCompletes` and both `Converges`: TLAPS has no rules for
`ENABLED`, so arguments from fairness stay with TLC, as does what a recursive
definition computes (none of the installed provers does induction over data). Of
`CallersEnd`, `WalksAreBounded` proves the part that is about the code.

## 5. What the models take from outside

* S3 puts with a precondition, and Iceberg commits, are atomic; Spark runs one
  action at a time in program order.
* Flink restores offsets, state and sink output together and commits sinks after
  a checkpoint (`EXACTLY_ONCE`); null values reach the Bronze map as the code
  expects; the three sinks stand for the three outputs that are written, and the
  side output for stale events has no sink. An operator who submits a job anew,
  with empty state and from the earliest offsets, is outside.
* Local files appear when they are created, and a half-copied V1 manifest is not
  told from a whole one, since nothing reads it back.
* What a source record must hold (`validate_record`) and what a Silver row must
  hold (`validate_exchange_rates` and the like) are predicates of the records an
  instance names.
* The Bronze readers are given manifests the pipeline's own publishers wrote;
  the checks `verify_committed_batch` makes against manifests of other writers
  (versions, owners, paths) never fail in the model. The same holds of a Silver
  table damaged from outside, against which `validate_backfill` also guards.
* One CDC writer per table. With two, the properties of `CdcLedger` do not hold.
* A change feed gives Silver increasing `applied_at` with increasing LSN, on
  which the second comparison of `fct_orders` relies.

### Not modelled

* Registry loading, look-up and endpoint checks, `plan_recovery` and
  `reprocess_committed_manifest`: stateless checks of configuration or one
  re-read of a manifest.
* Serialization, source contracts and event emission: encodings without state.
* `land_files` and the other V1 tasks: loops over local fixtures with one
  publication each; two attempts of a task are `BatchBronze`. Their quarantine
  key does not tell a duplicate from an invalid file of the same stem.
* `list_committed`'s paging and key mapping: `ReaderAccepts` is what it and
  `committed_manifest` answer for one identity.
* The dimensions, the payment fact and the marts of Gold, the V1 dbt models and
  the warehouse scripts: rebuilt from their inputs at each run, no state of their
  own. `orphan_customer` is not in the comparison of `fct_orders`, so a late
  customer does not refresh it; `GoldOrders` has no customers.
* A CDC consumer that would archive and quarantine refused records: not in the
  repository. `mdep_cdc/archive.py` appends to a local file nothing reads.
* Demos, integration scripts, packaging, Terraform and fixtures: drivers and data.

## 6. Plan

The parts with state and control are modelled and their safety is proved. What
could still be proved:

1. That one publication step of `AwsIngestion` is what `BronzePublication` allows
   one caller to do between a call and its result, so that the two modules are
   joined by a theorem and not by the argument of section 2.
2. The safety halves of the other liveness properties: the bound on the attempts
   of `BatchBronze` and of the calls of `BronzePublication`, and that an orphan
   never makes a later step of an equal payload fail.
3. For `FlinkCdc`, that the job stops only by values that raise or by more
   crashes than restarts.
