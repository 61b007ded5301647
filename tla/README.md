# A verification of the food-information pipeline

The repository collects product pages from an online shop, reads the nutrition
labels out of the detail images by OCR, submits a collected batch to a
pipeline that turns it into layers (bronze, silver, reconciled, gold), reconciles
it with the public food database (KFIA) and publishes a gold data set. People drive it
from a console (FastAPI), from command lines and from Dagster. This directory holds TLA+
models of the parts whose correctness depends on the order of things or on how
several stages work together, the TLC configurations that check them, and proofs that
TLAPS checks. Paths below are relative to `src/`.

To check a run: `tlc -config <run>.cfg <module>`, to check proofs: `tlapm <Component>Proofs.tla`.

## 1. Inventory

| Component | State it keeps | Operations | Interacts with | What makes it correct |
|---|---|---|---|---|
| Pipeline service: `apps/normalizer/src/normalizer_pipeline/service.py`, `apps/console/src/pipeline_gateway.py`, `main.py` | rows of runs, steps, artifacts; the service in an `lru_cache`; `_lock`; `_ACTIVE_RUNS` | start, retry, execute, recover | repository (one transaction per call), stages, request threads | one active attempt per stage; a worker's rows are its own; a success is backed; what is over is final; calls return |
| Metadata repository: `metadata/models.py`, `metadata/repository.py` | PostgreSQL tables | create, transition, artifacts, lineage, quality | all registrars | refused transitions, idempotent inserts, no lineage cycle |
| Collection intake: `metadata/submission_adapter.py`, `metadata/dagster_adapter.py`, `orchestration/assets/collection.py` | one run per bundle, named by content | register | repository; recovery of a starting console | a success is complete and of one code version; registration ends |
| Stages and bundles: `stages/base.py`, `kurly_transform/common.py`, `storage_paths.py`, `gold_transform/publish.py` | a directory of files per layer, staging directories | prerequisites, read, stage, promote, publish | each other, through files only | no mixture of successful runs; a gold bundle is whole and final; readers find their files |
| Transforms, quality, matching: `kurly_transform`, `kfia_transform`, `quality/kfia_rules.py`, `reconciliation/matching.py` | none of their own | bronze, silver, reconcile, publish | the bundles; the mapping file people edit | gold is justified by its inputs; nothing vanishes; re-runs agree |
| Submission: `submission.py` | accepted directory, audit, local report | validate, copy, recheck, seal, rename | working files of crawler and parser; other submitters | accepted = hashed; final; reports true; a verdict in the end |
| Reference registration: `reference_registration.py` | export and manifest of a dataset version | register, validate | KFIA bronze | the manifest names the export; registered once |
| Job runner: `apps/console/src/runner.py`, `progress.py` | job status, queue thread, containers | start, run, restart | pages, containers of crawler and parser | verdict and progress are those of the job shown; one command at a time |
| Review decisions: `reconciliation/run.py` | `decisions.jsonl` | create, append, read | reconciliation, console | no decision gets lost |
| Import gateway: `pipeline_gateway.py` | `sys.modules` | run a callback with the normalizer's `src` | all console threads | every thread gets the module it asked for |
| In-memory store: `normalizer_pipeline/store.py` | dictionaries | as the repository | pipeline service without a database | as the repository, within one process |
| Crawler, discovery: `apps/crawler/src/discovery`, `cli.py` | found links, idle rounds; list, manifest and failures of a batch | scroll, extract, merge, cut; read a file of URLs; write | browser, collection | ends for a reason; no product shown is missed, none is listed twice; the manifest counts the list; a list is final |
| Crawler, detail collection: `apps/crawler/src/cli.py`, `kurly_page.py`, exporters | `crawl_raw` and images, shared by all batches; `crawled_products.csv` | collect, reuse, fail, merge rows | browser, image server, OCR | a row has its image; a collection that ended left every image of its products in a row, once |
| OCR parser: `apps/ocr-parser/src` | verdicts on images; rows and failures of a batch | classify, process a chunk, merge page and image | OCR engine, submission | precedence of page and image; every row of a chunk accounted for, none twice |
| Orchestration: `orchestration/sensors.py`, `resources/artifact_store.py` | Dagster's cursor | list accepted batches, request runs | intake | each batch requested once |
| Migrations, contracts, checksums, views, authentication, command lines | none of their own | | | |

What is hard: request threads, workers and restarts interleave on rows written in
separate transactions; a cache and a lock protect each other only if the
cache is filled once; files are promoted one by one while readers open them;
every registrar has to be idempotent although it can die between any two calls; a copy
is taken from a directory others write to; a status is shared by a thread and
the containers that outlive it; and what gold says follows from six stages none of which
sees all of it. `PROJECT.json` lists each hazard at its line.

## 2. Plan

Done: `RunStatus`, `RunLedger`, `PipelineService`, `CollectionIntake`, `LayerBundle`,
`Submission`, `ReferenceInbox`, `JobRunner`, `Reconciliation`; the front of the pipeline:
`ProductDiscovery`, `DetailCollection`, `ImageOcr` and their composition `BatchWork`; proofs of
every safety property a run checks, invariants and action properties alike, and of the refinement of `RunLedger`.

Left, in this order:

1. Theorems that no run needs but a reader may want: which products a discovery with `MaxProducts` keeps (the first it met),
   and that a collection repeated without failures changes nothing.
2. The hidden directory of a dead submission together with the sensor that lists it.

A module for lineage cycles was planned and dropped: the only writer of edges is the
intake, all its edges leave one node, and such edges close no cycle.

How the modules relate: `PipelineService` and `CollectionIntake` share the table of
transitions in `RunStatus`. `PipelineService` implements `RunLedger`, a ledger of attempts per unit.
`LayerBundle` takes from `PipelineService` that a layer has one active run (`Serial`, which is
`NewestOnlyActive`), and gives `Reconciliation`, where a stage run is one step, that bundles of
successful runs do not mix. `ImageOcr` extends `DetailCollection`, which extends `ProductDiscovery`,
as each reads the files of the one before; `BatchWork` composes the three under a console that starts one
container at a time, which is what `JobRunner` grants it (`OneCommand`) as long as no console
died. `products.csv`, the end of `BatchWork`, is the working file `Submission` copies.

## 3. The modules

### RunStatus, RunLedger, PipelineService

One action is one repository call (one transaction), one acquisition or release of
the lock, or one change of `_ACTIVE_RUNS`; a thread may be preempted between any two. A
run is identified by its unit - a stage of a batch - and attempt, like
`batch:{batch}:{stage}:{attempt}`.

| Model | Code |
|---|---|
| `runs`, `steps`, `artifacts` | rows of the database; they survive a crash |
| `cached`, `lock`, `worker` | `lru_cache`, `PipelineService._lock`, `_ACTIVE_RUNS` and the daemon threads |
| `pc`, `svc`, `unit`, `att`, `stale`, `failing` | locals of a request thread |
| `BuildService` .. `CacheService` | `get_pipeline_service` with `recover_stale_runs` |
| `CallStart`, `CallRetry` .. `Schedule` | the two POST handlers, `retry_run`, `start_run`, `schedule_run_execution` |
| `LoadRun` .. `CloseRun` | `execute_run` in the worker |
| `RequestFault`, `WorkerFault`, `Crash` | an exception of a database or file call, the end of the process |

Any number of threads may find the cache empty at once, and each then builds a service with a lock of its
own. The history variable `rivals` says that two have. `NewestOnlyActive`, `WorkerOwnsRows` and
`ImplementsLedger` speak of the behaviour up to that moment; section 6 says what may happen then. `SucceededIsBacked` and `TerminalIsFinal` hold throughout.

Abstracted: the content of results (only the number of artifacts counts), the
page-level lookup of a batch (a call may be refused at `PrerequisiteMissing`), the limits of
the list queries (200 and 1000 rows), the in-memory store.

### CollectionIntake

The registration of one accepted bundle. Its run id is made of the content hash, so
registrars - command line, Dagster asset, automatic retries, each a process of its
own, perhaps of different code versions - all work on one run; one action is one transaction.
`CreateRun`, `JoinRun`, `AlreadyRegistered` and `VersionConflict` are the outcomes of `create_run`
with the checks after it; `BeginRun` .. `FinishRun` are the calls of `register_accepted_submission`
in their order; `ListStaleRuns` .. `RecoverStep` are `recover_stale_runs` of a console that starts
meanwhile. Abstracted: metadata of artifacts, quality rows, and the order in which files
are registered (any order).

### LayerBundle

The files of the layers, each identified with the run that wrote it. `Start` and `Check` are
the two looks at the prerequisites, `Read` opens one file, `Stage` computes the result in the staging
directory, `Promote` renames one file, manifest last, `Settle` turns the result into a status; `Fault`
and `Crash` stop a run or all of them between any two files. The stages differ by constants:
what they read and write, in which order, whether the bundle is sealed (gold), whether a
result without records, or with quarantined ones, fails the run (the bronzes). Two
instances cover the chain: bronze and silver, and silver, reconciliation and gold.
A staging directory of a run that failed is never seen again, since attempt numbers do not repeat.

### Submission

`submit_collection_batch`, file by file: `Identify` and `Adapt` validate, `ListFiles` and `HashFile` are
`batch_sha256`, `CheckFinal` looks for an accepted batch, `CopyFile` and `Compare` copy and hash again,
`Seal` writes manifest, report and audit into the hidden directory, `Rename` moves it into place,
`LocalReport` and the two `Duplicate` actions write beside it. `Edit` is the crawler or the
parser writing a working file, at any moment; they never delete one. A version stands for
the content of a file and for its checksum. The first reads of `products.csv`, for counts and
batch ids, are part of `Identify`.

### ReferenceInbox

One dataset version. `api_reference_register` is an `async def` whose body never awaits
after the upload, so one registration runs at a time (`LoopFree`); validations and bronze runs are
threads beside it. The copy of the export has a step in which it is half written; the manifest is
replaced as a whole.

### JobRunner

`Start` and `SpawnFails` are `start_queue` with a thread that starts or does not; `NextCommand` ..
`Finish` are `_run_queue`; every access to the status holds the lock and is one action. A request is
described by what `main.py` passes: number of commands, total, whether batches or items
are counted, and whether a failure stops the queue (submission and validation jobs go on).
Commands run in containers, which survive the console (`Restart`, `OrphanExits`): that is an assumption about
Docker, not something in this code. `_process`, the handle of the
current command, and the log text are left out. `FairSpec` adds weak fairness of each queue's thread.

### Reconciliation

What the stages compute per record. A reading is identified with its position in
the accepted manifest, a reference row with its position in the export (its `record_id` is made of
the row index), a silver product with its product id. Texts are abstracted to what
the parsers read out of them: an expiration is value, unit and basis; a storage type
or method is the class `normalize_storage_type` recognises, or `Absent`; `suspect` stands for a
safety factor above 1 and for a document of another category, which have the same effect.
People edit the mapping file between runs (`EditMapping`); all else in a bundle is a function
of the two inboxes. `created_at`, the tie-break between readings of one product, is
the same for all lines of a manifest, so the tie is broken by the stable sort.

### ProductDiscovery

The crawler's discovery of a batch. A link is the product it names; all links that name
none are `Foreign`. `Feed` is what the page would show if scrolled for ever; it shows a prefix, which
`PageLoads` extends at any moment.

| Model | Code |
|---|---|
| `EnsureFreshBatchDir`, `Begin`, `DiscoverSearch`, `DiscoverCategory` | `ensure_fresh_batch_dir` and the head of the two `discover` methods |
| `Look`, `LookAgain`, `IdleRounds`, `StopReason` | one round of `discover_with_scroll`: the look before and the look after the scroll |
| `PageFails`, `PageConcludes` | the `except` branches, and the rest of `discover` |
| `LoadUniqueUrls`, `Good`, `Among`, `DiscoverUrls` | `load_unique_urls`, `canonicalize_product_url`, the discovery from a file, which leaves out the links that are not good |
| `OpenDiscoveryCsv`, `WriteDiscoveryCsv`, `WriteDiscoveryManifest`, `AppendDiscoveryFailures` | `_persist_discovery`: the list is opened, which makes an empty one, and filled; then a file per step |
| `Double` | `simulate_scroll_discovery`, which the unit tests run in place of the loop |

`sights` is a history variable: what the page showed at the two looks of each round. The
counter of duplicate links and the reason text of a failure are left out.

### DetailCollection

`collect-details` (forced or not) and `collect-batch`, product by product: a record that is
in `crawl_raw` is used again (`ReuseRecord`), else the page answers (`OpenProduct`), its images are written
one by one (`OpenImage`, `SaveImage`), and then the record, which replaces the old one as a whole (`KeepRecord`);
any of it may fail (`FailProduct`). An image is written in place, also over one that was there under the same name:
`torn` are those that were opened and not written whole, for the moment or because the process failed or died there. Of
two processes that write one image, the later one makes it whole. Then the file of rows is read and opened for writing,
which empties it (`CollectOpens`), and written (`CollectCloses`). The digest of an image stands for its content,
what `field_extractor` reads out of a page is one value, and `failures.csv` of the crawler, which no later
step reads, is left out. `PagesAssumption` says that a page is two lists of image links and its words, and that no
image is the empty path a row without image has.

### ImageOcr

`classify-images` and `process-batch`, row by row. What engine and parsers say of an image are constants
(`Heuristic`, `Prepass`, `Gate`, `Text`, `Reading`), and so is which values mean the same (`Alike`).
A torn image does not load, which ends a classification, since the heuristic runs outside the `try`
(`TornImageEnds`), and fails a row of OCR. `Updated` is the merge of verdicts.
`LoadsKeys` is the one look of a process at `products.csv`; `SkipRow` .. `FailRow` are the ways a row
goes. `heard` is a history variable: the product and words of each row that was read. `ocr_raw`,
written before a row and read by nobody, the columns `parse_status` and `duplicate_hits`, and the filter for rows of several member batches are left out.

### BatchWork

The three together. `JobDiscover` .. `JobOcr` are the POST handlers of `main.py` with the commands they
build; `Watch` is the console that sees its container end. `ConsoleRestarts` forgets
the container, which goes on; `Dies` kills one between two steps, also inside a file it writes;
`DiscoverByHand`, `CollectByHand` and `ReadByHand` are the commands of `README.md` typed past the console.
`forced`, `byHand` and `restarted` are histories: that the console started a forced collection, that a command
was run past it, that it restarted. `Starts` says what is there of the batch when it
is met, and how many jobs, hand commands, restarts and deaths happen (`Bounds`). `StartsAssumption` says that what is
there was left by this code: a list of products without repetition, as `_persist_discovery` writes it after a discovery from a
file; records that are absent, do not load, or are what `collect_product` makes of a page; rows with one key each
that name images of those records, as `collect-details` leaves them. That a batch in such a state stays so is what the
theorems of section 5 show.

## 4. Runs

| Run | Instance | Shows |
|---|---|---|
| `service_core` | 2 requests, 2 units, 3 calls, 1 exception, 1 crash | `NewestOnlyActive`, `WorkerOwnsRows`, `SucceededIsBacked`, refinement `ImplementsLedger` |
| `service_live` | 2 requests, 1 unit, 3 calls, 1 exception, fair | `TerminalIsFinal`, `CallsReturn`, `ScheduledRunSettles` |
| `blocked_stage` | 1 unit, 1 crash | refutes `BlockingRunIsAttended` |
| `intake_core` | 2 registrars, 2 code versions, 3 files, 2 faults, 1 recovery | `SucceededIsComplete`, `OneCodeVersion`, `IntakeSettles` |
| `layers_gold` | silver, reconciliation, gold; 2 runs each, 1 fault | `SealedIsWhole`, `SealedIsFinal`, `ReadersFindFiles` |
| `layers_bronze` | bronze, silver; 3 runs each, 1 fault | `OnlyFailuresMix`, `NoOlderInput` |
| `submit_core` | console and command line, 3 files, 2 versions, one of which breaks `products.csv`, 1 edit, 1 fault | `AcceptedMatchesReport`, `LocalReportIsTrue`, `AcceptedIsFinal`, `SubmissionIsDecided` |
| `reference_core` | 2 registrations of 2 exports, 2 validations, 1 bronze run, 2 crashes | `ManifestIsTrue`, `BronzeReadsWhatItNames`, `RegistrationIsFinal` |
| `jobs_core` | 2 jobs out of 5 shapes, 3 lines, 1 failing thread start, 1 restart | `VerdictIsTrue`, `ProgressIsTrue`, `OneCommand`, `RunningHasWorker`, `JobSettles` |
| `batch_core` | 3 products, 2 of which may be asked for, 3 images, 2 processes; up to 4 jobs, 1 hand command, 1 restart, 1 death | `DoubleAgrees`, `StopIsJustified`, `DiscoveryFilesAgree`, `ListIsFinal`, `RowsAreBacked`, `CollectionIsWhole`, `ClaimsAreTrue`, `MatchedIsAgreed`, `NoDuplicateRows` |
| `reconcile_core` | 1 or 2 of 8 readings, 1 or 2 of 7 reference rows, 1 edit | `GoldIsJustified`, `NothingVanishes`, `RerunsAgree` |
| `uncertain_approved` | the same | refutes `UncertainNeverApproved` |

`service_core` also checks the type invariant of `PipelineService`; those of `CollectionIntake`,
`LayerBundle`, `Submission`, `ReferenceInbox`, `JobRunner`, `Reconciliation` and `BatchWork` are theorems (section 5).

Why the bounds are enough:

- `service_core`: three calls let a second request overlap a first and a third one retry
  what they left; two artifacts let an exception or a crash fall between them; with two units a recovery
  meets two stale runs. All races of this code are between two threads. Requests and units are
  symmetric. `service_live` has the cold race: two services, the recovery of the
  second beside the worker of the first. One unit is enough for it, and an exception leaves the
  stale run a crash would leave. It has no symmetry, because it checks liveness.
- `intake_core`: two registrars of different versions reach each of the comparisons; of three files one is
  the manifest, so that an artifact and an edge may each be missing alone; the second fault stops
  the registrar that took over from the first.
- `layers_*`: two runs of each layer and one fault leave a bundle half promoted and let a reader
  meet it; three runs of bronze and silver leave a mixture and let a success follow it.
- `submit_core`: one edit makes hash and copy differ, in either submitter; one fault leaves
  a hidden directory. Files that stay the same add nothing. Fewer submitters never rename twice.
- `reference_core`: the second crash hits the registration that repairs what the first left.
- `jobs_core`: a second job shows what the first leaves behind; three commands tell
  the last one from the one before and from the failing one; totals of 0 and more or fewer lines than
  the total are included.
- `reconcile_core`: readings and rows differ from each other exactly where a stage decides -
  confidence, validity, name, storage, method, basis, unit and days - and two of each are what a
  tie, a quarantine beside a valid record and a second candidate need. Stages are re-run in every order.
- `batch_core`: the page has a foreign link, a product twice and one product more than asked for, so that each
  reason to stop occurs, with two idle rounds and three scrolls; the URL file has a product
  twice, once by a bad link. The first product's images disclose, disclose nothing, or have no text; the second
  has no image, or two, one of which contradicts its page. A page of the first may come back with other words and
  without the image that discloses, so that a forced collection changes what a row tells. Eight initial states
  keep the dimensions apart. With one command at a time (`Alternating`): a new batch with an empty `crawl_raw` (four jobs
  and a death: discovery, collection, OCR, and one of them again), one with an unreadable record or one of an older page
  without words and image, and a collected batch (three jobs and a death). With commands that overlap (`Overlapping`):
  a discovered batch with a job and a hand command, such as two collections that write one image; a collected
  batch with two jobs and a restart between them, or with a job and a hand command, and a death in either; and
  a new batch discovered by hand. Chunks have offset and limit 0 or 1, where 0 is no limit. Two processes are the
  most that overlap with one restart or one hand command.

### Fairness

`service_live`: the operating system schedules started threads and a stage is finite local work, hence
weak fairness of each request and worker; nothing obliges a user to call, an exception to be
raised or the process to die. `ScheduledRunSettles` starts once the bounded exceptions are
used up, since each of them may leave a run behind, and gives up where a further service is
being built, whose recovery may take the run from its worker; that is a thread that found the cache empty
at the same time as the one whose service launched the worker.

`intake_core`: weak fairness of a registrar's steps, and of calling again after a refusal or an
exception - Dagster's retry policy of the asset has two retries, as many as the instance has
faults. A retry that is refused for its version changes nothing, so fairness asks in effect that
the version that created the run is the one that retries. `IntakeSettles` excludes
behaviours in which a recovery started: those may strand the bundle (section 6).

`submit_core`: weak fairness of a submitter's steps, and of submitting again after an error or a
`COPY_CHECKSUM_MISMATCH`: both leave the batch undecided, and people or the console's retry submit it
again. Edits are bounded, as a
batch that never stops changing is never accepted.

`jobs_core`: weak fairness of each queue's thread (`RunQueue`). The operating system schedules it; that a
command it waits for ends is an assumption on crawler and parser, which bound their waits, scrolls and
retries, since `_run_one` waits without a timeout. A restart takes the threads away, and
`JobSettles` speaks of jobs whose thread is there.

`jobs_core`, `batch_core` and the two `layers` runs may stop when jobs and attempts are used up, so
deadlock is not checked there.

## 5. Proofs

For every value of the constants (bounds, threads, files, records), from the named
assumptions of the modules:

| Module | Theorems | Argument |
|---|---|---|
| `PipelineServiceProofs` | `TypeCorrect` | `ControlInv` adds what the locals hold at each label |
| | `TerminalRowsAreFinal` | table of transitions and types |
| | `SuccessIsBacked` | `BackingInv`: what a worker on its way to success has written |
| | `NewestOnlyIsActive` | `ClaimInv`: until `rivals`, the process has one service (`ServiceInv`), a thread inside the locked part holds its lock (`LockInv`), so what the duplicate check and the choice of the attempt found still holds at the insert (`CheckInv`) |
| | `WorkerOwnsItsRows` | `OwnershipInv`: until `rivals`, no worker without a complete service, so recovery meets none, and a request is the only one that knows the run it is about to launch (`OwnerInv`) |
| | `LedgerIsImplemented` | until `rivals`, the rows of a unit are a sequence: no attempt without the one before (`LedgerInv`, `LedgerStaysDense`); one row moves per step (`OneRowMoves`), along the table of transitions, and it is the last attempt of its unit since only the last is active (`MoveIsLast`), so that an insert is `Submit`, a move `Begin` or `Finish`, and any other step a stutter (`StepIsLedgers`) |
| `CollectionIntakeProofs` | `IntakeTyped`, `SuccessIsComplete`, `VersionsDoNotMix` | `IntakeInv`: what each registrar has written stays (`RegistrarInv`), and rows agree with each other (`RowsInv`) |
| `LayerBundleProofs` | `LayersTyped` | types of positions and readings |
| | `FilesAreFound` | `Complete`: a manifest comes last and where the layers below have theirs, and no file is ever removed (`FilesRemain`); what a stage reads belongs to layers it, or a stage it needs, has checked (`ReadsAssumption`) |
| | `GoldIsWhole`, `GoldIsFinal`, `SuccessesDoNotMix`, `InputsNeverGoBack` (`Serial`) | `SerialInv`: runs of a layer follow each other, files grow with attempts, what a run read is past, the manifest is written last |
| `SubmissionProofs` | `SubmissionTyped`, `FilesMatchReport`, `ReportsAreTrue`, `AcceptanceIsFinal` | `SubmissionInv`: a sealed copy equals its hash, whoever reports has an accepted batch of that hash (`LocalInv`) |
| `JobRunnerProofs` | `QueueTyped`, `VerdictTrue`, `OneCommandAtATime`, `RunningIsWorkedOn` | `QueueInv`: jobs not let in did nothing (`FutureInv`), a thread that works is that of the job shown (`WorkerInv`), where it stands in its queue (`PlaceInv`), and it has a container only while it waits for it (`ContainerInv`) |
| | `ProgressTrue` | `ProgressInv`: the log has a line per outcome; batches are counted against the number of commands (`BatchesAssumption`) |
| `ReferenceInboxProofs` | `InboxTyped`, `ManifestsAreTrue`, `BronzeNamesItsInput`, `RegisteredOnce` | `InboxInv`: one call at a time past the check finds no manifest (`CallInv`), what readers saw of a manifest is still so (`ReaderInv`) |
| `ReconciliationProofs` | `ReconciliationTyped`, `GoldIsEarned` | `FullInv`: bundles are functions of the inboxes (`LayerInv`), what is mapped was an edit (`MappingInv`), what is approved was earned by the representative reading (`ApprovalInv`) |
| | `NobodyVanishes` | the types: a reconciliation is keyed by the products of valid readings |
| | `StagesAgreeAgain` | `AgreeInv`: outcomes are those of the mapping file that was read; a silver bundle is made again as it was, since a product has one representative (`RepresentativeUnique`) |
| `BatchWorkProofs` | `ListStaysFinal` | `ListInv`: no list without its directory, which a discovery must make itself, so that it finds no list there and fills only the one it opened |
| | `NoRowIsDoubled` | `RowInv`: one reader at a time until the console restarts or a command is run past it (`Alone`, `OneReader`, from `ProcsAssumption`), and what it has seen covers what is written (`ReaderShape`) |
| | `UnreviewedIsAgreed` | `AgreedInv`: a row is made by `MergeField` from the page and the image it names |
| | `BatchTyped`, `FilesStayInStep` | `DiscType`, `FilesInv`: what a discovery still has to write is what its manifest will say, and from `csv` to `manifest` the list is the one it wrote; merging and cutting keep a list without repetition (`MergeFacts`, `CutFacts`) |
| | `StopStaysJustified` | `StopInv`: at each look the products known are those the page showed at the last `idle` looks, since links only come (`MetGrows`) and a list without repetition that has the same length has the same elements |
| | `DoubleStaysInStep` | `DoubleInv`: between rounds the loop's record is the double's over the looks so far, and within a round it is one look ahead of it (`ScrollsFrom`) |
| | `RowsStayBacked` | `BackInv`: what a collection holds, before it is written, is backed, too, since images are on disk before the record and no image is removed. `TornInv`: while one unforced collection at a time runs (`Sole`), a product whose images are being written has no record that names them (`GetsNew`), and what a record names is whole (`Firm`) |
| | `CollectionsEndWhole` | `WholeInv`: until a restart or a hand command, one collection at a time; what is left to do, and the rows and keys of what is done (`Kept`), phase by phase: rows of two products have different keys (`KeysApart`), and the merge keeps the old rows and adds each new key once (`MergeRowsFacts`) |
| | `ClaimsStayTrue` | `ClaimsInv`: a row of a chunk is still to come or settled, and a key a command has seen stands for what settles the rows that have it (`Claims`). A key it loaded from `products.csv` has its row there, and that row tells words of the product that were read (`OutHeard`): those of the row that is skipped, or others, which is the exception. Neither file loses a row (`SettledGrows`). What is left out has no text, since every verdict in the file, or found and not yet written, is the image's own (`ChecksTrue`); a lost or partly written file only has fewer of them |

The properties are not inductive by themselves; the strengthenings say what the
locals of an interrupted call still know. The three theorems about attempts and owners have no premise on how many
threads find the cache empty: they say what holds until two build a service at once, which is all that
can be said (section 6). `SuccessIsBacked` and `TerminalRowsAreFinal` hold beyond that. `Serial` is what
`NewestOnlyIsActive` grants `LayerBundle` until then.

What a fold over a sequence comes to. `Merge`, `LoadUniqueUrls`, `Among`, `Distinct`, `MergeRows` and the double of the tests are
`FoldLeft`, whose definition recurses over sets of places. The provers take no induction rule with an operator
as parameter, so `BatchWorkProofs` goes another way. Every nonempty set of naturals has a least member
(`LeastNumber`, from the well-foundedness of the naturals), and from it comes induction up to a bound for sets (`UpTo`).
With it each fold is shown to run along a trace: a function of the place that starts at the base and takes one
step per element (`FoldExists`, `FoldValue`, and a `...Trace` lemma for each fold). What the fold keeps - types, no repetition,
which elements - is then an induction over the trace. The trace lemmas resemble each other: one for all folds
would have the operator as a parameter. For this reason `Among` stands where `SelectSeq` could, whose
definition is recursive, and `KeysOnce` says by places what a count of keys would say.

Only model-checked: the liveness properties `CallsReturn`, `ScheduledRunSettles`, `IntakeSettles`,
`SubmissionIsDecided` and `JobSettles`, since liveness under fairness is out of the prover's reach.

## 6. Behaviour met while modelling

Two disagreements have runs of their own: `blocked_stage` and `uncertain_approved`. The following were seen in the code or in instances of the models while they were written:

- Two first requests after a start may each build a service; with two services there are two
  locks, and a double click gives two active runs of a stage, against
  `dev_order_docs/05_pipeline_ui_foundation.md:46`: two requests and two calls are enough for it once `~rivals` is
  dropped from `NewestOnlyActive`. The second gold run may then replace published files.
- A process that dies inside its recovery, after failing the run and before failing the step, leaves
  the step `RUNNING` for ever: the next recovery looks at `RUNNING` runs only.
- Of two concurrent registrations of one bundle the slower may be refused with an invalid transition
  although the bundle gets registered.
- A stage opens manifest and records separately: it may record the checksum of one bundle and use
  the records of the next when the layer below is re-run meanwhile.
- When the process dies between the promotion of gold and the record of success, the retry
  is refused since the bundle exists.
- A KFIA bronze that quarantined rows is `FAILED` and nevertheless promoted; silver starts on it.
- `products.csv` is read for the manifest (`submission.py:199`) and hashed later (line 241): an edit in
  between is accepted with a manifest of other products. Only hash and copy are compared.
- Of two submitters of one batch the second raises `OSError` at the rename and is told
  `duplicate` when it calls again (`dev_history/02_contracts_and_storage.md:60` calls the submission
  idempotent).
- The sensor lists hidden temporary directories that a dead submitter left (`artifact_store.py:25`).
- A console that restarts runs a job beside a container of its predecessor.
- When the thread of a job cannot be started, its status stays `RUNNING` and refuses every later job
  (`runner.py`); `RunningHasWorker` names this as its one exception.
- `decisions.jsonl` is written for people; matching never reads it.
- The mapping file documented as `datasets/reconciled/mappings/default.json` is read from
  `mappings/default.json` under the data root (`dev_history/08_reconciliation_quality.md:41`).
- A console that starts while an intake runs fails the intake's run, since its recovery takes every
  `RUNNING` run for a dead one (`service.py:63`). The run id of an intake has no attempt in it, so the bundle cannot
  be registered again, against `dev_order_docs/05_pipeline_ui_foundation.md:45`, where a failure is run again as a
  new attempt.
- A first reconciliation creates `decisions.jsonl` with a test and a write that truncates (`run.py:196`): a decision
  appended in between is lost.
- Two threads that import the normalizer at once restore each other's half of `sys.modules`, although
  `pipeline_gateway.py:45` says "without clobbering".
- The in-memory store checks no transition and forgets its runs at a restart, so that attempt numbers are
  used again. The list limits of 1000 and 200 rows hide runs from recovery once there are more.

Of crawler, parser and the console's jobs:

- `load_unique_urls` keeps the first line of each product id. A link of another host with the same
  id takes that place, and is refused afterwards: the good link below it is lost.
- A page that breaks while it is scrolled drops all products known so far.
- A discovery that dies inside the list leaves `discovered_products.csv` without a manifest;
  `collect-details` takes it for a whole list.
- Two commands that write one record share its temporary file; a `crawl_raw` record that cannot be read is
  passed over with neither a row nor a failure.
- `collect-details` appends the products it failed on to a `failures.csv` under `/outcome`, which `compose.yaml`
  mounts for the parser and not for the crawler: the file ends with the container.
- A product all of whose images were classified `NO_TEXT` gets no row, its page's words neither
  (`README.md:255`: values of the page are recorded without OCR too).
- A forced collection that finds other words on a page leaves the images' names as they were: the OCR that follows
  skips the rows it knows, and the new words are not recorded. `ClaimsAreTrue` names this case (`Changed`).
- A collection that dies inside an image it writes again leaves it torn under a name that records and rows hold;
  forced collections and two collections at once do that. `RowsAreBacked` excludes them from what it says of whole images.
- A torn image ends `classify-images` and with it the verdicts found so far (`ocr-parser/src/cli.py:135`).
- Two OCR commands at once, of which one is run by hand or beside a container a restarted console forgot, write
  rows twice: each has loaded the keys before the other appends.
- A classification between two chunks of `process-batch` moves the border between them, so that a row may be
  read by neither (`ocr-parser/src/cli.py:283`; the page `step_ocr.html:39` says to raise the offset).
- A forced collection replaces the file, rows of other collections included; a comment says so.
- The console is started with `--reload`: a change of its source restarts it and forgets the container that runs.

## 7. Not modelled

- Import gateway: what threads find in `sys.modules` rests on what the interpreter leaves of an import that
  failed half-way, which is not in this code.
- Review decisions: an append to a file no program of the repository reads.
- In-memory store, list limits: section 6 says what differs. `PipelineService` has the rows of the database
  and stays far below the limits.
- The search for lineage cycles: the only writer of edges cannot close one.
- Orchestration: the sensor turns a directory listing into run requests; the asset it starts is a
  registrar of `CollectionIntake`.
- Of crawler and parser: recognition and parsing themselves (constants), `ocr_raw`, `parse_status`,
  `duplicate_hits`, the member filter, `process-one`, a last line of a CSV torn in the middle, the
  log lines of progress (`JobRunner` counts them), the mounts and arguments of the docker commands.
- Migrations run once by a command of their own before the services start. Contracts and checksums are pure
  functions whose verdict the modules take as a field of the record. Views, authentication,
  configuration and command lines read and render, without state of their own.

The browser, the OCR engine, Docker, PostgreSQL and Dagster are outside the repository; the models use of
them what the code relies on: a transaction is atomic, a rename is atomic and does not replace a directory
that is not empty, a container outlives the process that started it.
