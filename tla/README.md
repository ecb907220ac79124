# Verification of datafeeder

This directory holds TLA+ specifications of geOrchestra datafeeder, the TLC
configurations that model-check them on small instances, and proofs checked by
TLAPS. The reference is the code: `PROJECT.json` maps every definition to the
lines it stands for, lists the hazards, the runs, the mutants and the theorems.

## The system

Datafeeder imports datasets into geOrchestra. A user uploads a file or names a
remote source; the data is *staged* (copied into a table of the `staging` schema),
previewed, then *processed* (transformed into a final table), published as a
GeoServer layer and described by a GeoNetwork record. A schedule may refresh it.

| component | state it keeps | operations |
|---|---|---|
| backend routes (`apps/backend/src/api/routes/ingestion`) | rows `integrity_link`, temporary upload files | submit and edit a staging, process, schedule, delete, callbacks of the DAGs, rules, publication toggles, administration |
| task executors (`core/task_executor.py`, `services/executors`) | none (Airflow) or one task table in memory (local) | trigger a staging or process run, status, logs |
| Airflow client and run ids (`services/airflow_client.py`, `core/run_ids.py`) | a token cache | cancel the runs of a dataset, remove its DAG, purge its history |
| Airflow DAGs (`apps/elt/dags`) | DAG runs, staging, temporary and final tables | ingestion, transformation, cleaning, callbacks; one generated `ingestion_<id>` DAG per scheduled dataset |
| data manipulation library (`libs/data_manipulation`) | PostGIS tables | ingestion of files and services, type detection, transformation in SQL, choice of a table name, GeoServer layers |
| catalogue services (`services/geoserver.py`, `services/metadata_*.py`, `services/layer_publication.py`) | layers and their ACL in GeoServer, records and their sharing in GeoNetwork | publish, update, delete |
| access control (`api/deps.py`, `core/security.py`) | none (headers, rules) | who may read, edit or own a dataset |
| frontend (`apps/frontend`) | the state of the wizard | polls the DAG runs and sends the requests |

How they interact: the backend answers a request by changing its row, calling
GeoServer or GeoNetwork, and triggering a DAG run over the Airflow REST API. The run
works on PostGIS alone; when it is over Airflow calls back one URL of the backend,
once. The DAG processor reads the `integrity_link` table itself to generate the DAGs of
scheduled datasets. No lock and no transaction spans two of these systems: what
ties them together is the columns of the row, read at one moment and used later.

What is hard here is therefore: requests that overlap each other and the runs;
callbacks that come late, come after the row changed, or never; steps that fail
after an earlier one took effect; names chosen before they are reserved;
the generated DAG that lags behind the row. `PROJECT.json` lists each place under
"hazards". What makes each component correct:

* staging routes: an upload is readable until it was read; a failed first staging
  leaves nothing; no failure takes back a dataset that is published;
* process routes: datasets never write each other's tables; the row learns of the
  table that was written; the layer a row names exists;
* DAGs: temporary tables do not pile up; a refresh does not destroy what it refreshes;
* deletion: nothing is left, nothing comes back;
* executors: a run inside the backend neither blocks it for good nor leaves it without an
  answer, and a restart loses no rows;
* library: a source is loaded as the whole it is or refused; what is previewed is what is
  written; nobody joins what nobody could read; a refresh that fails changes nothing;
* administration: what is copied from another platform is one published table, and
  takes the place of no other;
* sharing: GeoServer and GeoNetwork grant what the rules say;
* ownership: a dataset that changes organization takes its table and layer along, or
  nothing moves;
* listing: the pages of the list hold each dataset once, whatever comes and goes;
* Airflow client: what has to stop is stopped when Airflow answers, nothing else is, and every
  loop ends.

## Modules

    DatasetState                      state, types, Init, helpers
      |- StagingRoutes                staging.py
      |- ProcessRoutes                process.py
      |    '- DatasetDeletion         dataset_deletion_service.py, schedule_service.py
      |         '- PlatformAdministration   integrity_link_admin.py, table_transfer.py
      |- ElDags                       apps/elt/dags
      '- LocalExecutor                local_executor.py
    DatasetContract                   what users are promised (abstract)
    DatasetLifecycle                  staging, processing, deletion, Airflow: Next, Spec,
      |                               fairness, properties, refinement of DatasetContract
      |- MCDatasetLifecycle           instances for TLC
      |- DatasetLifecycleProofs       theorems, the refinement
      |    '- DatasetSettledProofs    what users who wait are promised
      '- DatasetPlatform              with the local executor, the administration, restarts
           |- MCDatasetPlatform
           '- DatasetPlatformProofs   theorems; extends DatasetSettledProofs

    SourceIngestion                   ingestion.py of the library
      '- TableTransformation          sql_transform.py, PUT /metadata and the preview of
           |                          staging.py, join_target.py, security.py
           '- TableTransfer           table_transfer.py
                |- TableTransferProofs     theorems
                '- MCTableTransfer

    SharingRules                      rules of integrity_link.py, geoserver.py, metadata_service.py
    OwnershipTransfer                 reassignment of integrity_link_admin.py, layer_publication.py
    DatasetListing                    integrity_links.py and the list page of the frontend
    AirflowRuns                       airflow_client.py, run_ids.py
    SharingRulesProofs, OwnershipTransferProofs, DatasetListingProofs, AirflowRunsProofs
                                      theorems on these
    MC<module>                        instances for TLC

`DatasetPlatform` composes everything that acts on `DatasetState`. The others are separate because
what they share with the life of a dataset is small and stated in their heads: `OwnershipTransfer`
sees a processing as a row, a run and a callback, `AirflowRuns` sees a run by its id and state,
`TableTransformation` sees what the tables hold, which the life of a dataset abstracts to
whose rows they are. `DatasetState!Cancelled` is the atomic view of what `AirflowRuns` does page by
page, and `CancelledRunsAreOver` is the reason why that view is sound for the runs that exist.

### The life of a dataset: state and code

`row[l]` is the `integrity_link` row of dataset `l`, with the columns the
ingestion decides on. `state` tells whether the row exists, and whether it was
deleted by its owner or rolled back by a failed first staging. `staging`, `temp`,
`owner`, `hollow` are the PostGIS tables: staging tables named by a uuid, the
`temp_<hex>` tables of scheduled runs, final tables with the dataset whose rows they
hold, those of them that are empty. `layers` and `records` are GeoServer and GeoNetwork.
`dag[l]` is the conf frozen into the `ingestion_<id>` DAG when the generator was last
parsed. `run[r]` is a DAG run with its conf and the task before which it
stands. `req[h]` is a request in progress with its local variables, which is where the
columns a handler read before a remote call are kept while others act.

Every dataset has an organization, the unit of the unique constraint on the final table
name (migration `12856770e05b`) and of GeoServer workspaces; the tables of all of
them are in one schema, as with `USE_ORG_SCHEMA=false`, the default.

One upload number stands for the staging uuid, the source and the temporary file of
one POST or PUT /staging, which always change together. One name number stands for
the n-th candidate of `get_available_table_name`; all datasets share one title, which is
the case where names meet.

### Granularity

A request is one action when nothing another process does can come between
its effects in a way it observes; otherwise it is split at the remote calls:
`edit_staging_commit` / `_trigger`, `staging_dag_failure_callback` (the look at the row) /
`rollback_drop` / `rollback_commit`, `process_staging_data_prepare` / `_commit`,
`process_dag_success_publish` / `_commit`, `clear_schedule` / `_commit`,
`delete_dataset_cancel` / `_data` / `_row`. The backend runs one uvicorn worker
(Dockerfile): a handler declared `async` holds the event loop over its
blocking calls, so `edit` and `publish` requests exclude the start of any other (`LoopFree`),
while plain `def` handlers, the failure callback of a staging among them, run in threads
and overlap. Each step of a DAG run is one action per
task, except `read_transform_write_task`, whose re-run drops the former table in a
transaction of its own (`drop_previous_final_table`).

A scheduled run is one run here: the `ingestion_<id>` run triggers a `process_dag` run,
waits for it and does nothing else.

### Faults and clients

`Faults` says what may go wrong, one word per cause: "task" and "cleanup" (an Airflow
task raises), "trigger" (Airflow refuses a run), "callback" (the only try of a callback
is lost), "publish", "record", "cancel" (GeoServer, GeoNetwork, the Airflow API while it cancels),
"restart" (the backend stops and starts again). In `OwnershipTransfer` "publish", "delete" and "restore" are
GeoServer refusing the new layer, GeoServer refusing to delete the old one, and PostgreSQL refusing to move
the table back; in `AirflowRuns` "delete" is a run that cannot be deleted and "api" any call that
raises.
`Clients` says how long users wait: "overlap", any request at any time, as the API allows;
"wizard", as the import wizard does, which polls the DAG run; "settled", until the callback
was handled too. The properties that hold for all clients are checked with "overlap". Those
of the pair, platform and liveness runs are checked for "settled" users, the difference being itself
a fact about the code: two POST /process in a row before the first callback write
two tables and the row remembers one. What protects an upload and a published row is checked with "overlap".

### The contract

`DatasetContract` is what all of this is for, in seven actions: a dataset is drafted, reserves a table
name no other dataset of its organization has, is published under the name that was written, is
doomed by an import that fails, which only happens to a draft, is discarded only when it was doomed, and
deleted only after someone asked. A doomed dataset that is published before it is discarded is lost: the
contract says what the code does there, and that nothing else takes a dataset back. `DatasetLifecycle!Contract`
instantiates it: `PhaseOf(l)` is "published" from the first retrieval on, the name is that of the
row, `DeletionsAsked` are the datasets of deletions in progress and `RollbacksDecided` those that a failure
callback is taking back. `KeepsContract` is its
specification as a property of the detailed one.

### The executor in the backend, restarts, and the administration

`TASK_EXECUTOR=LOCAL` runs the tasks of `run[r]` inside the request that triggers them. The async
requests (submit, edit, import) hold the event loop for the whole run (`LoopHeld`), POST /process
occupies a thread. A run that raises stops where it is: no task cleans up after it. The
callback waits in a thread pool for the loop to be free. `restart` forgets the requests in
progress and, with this executor, the runs and their callbacks; Airflow keeps its own.

`import_table_data` / `restore_table` are the two halves of PUT /data (checks, then the body and
one transaction), `import_integrity_link` / `_commit` those of POST /import, in the mode that
attaches a table that is here and in the one that ingests the source again (a "reimport" run). A table is
attached because it exists, whoever's rows it holds: a restored one, one that a deletion left, one that
a processing which lost its row wrote. The schedule may come along (`ImportedRow`).
`copy_record` is maelstro, an external tool. An administrator's deletion may keep the layer
and the record: the dataset is then "removed" (`remove_dataset`, with the purge of its runs), its table stays
and it may be imported again. An id that was deleted with its table or rolled back here is not imported again in
the model (`Importable`): what is left of its former life under that id would be a second dataset's.

### From a source to a table

`SourceIngestion` is a module of operators: what an archive holds (`datasets`), what encoding a
shapefile is read with (`.cpg`, then `.cst`, then chardet on the `.dbf`), when ogr2ogr reports an error
though it exits with 0. In `TableTransformation` a table is the function from its column names to where
the data of each comes from, so that two tables with the same columns can be told apart.
A configuration lists columns, excludes and renames some, builds a point from X/Y, joins the
final table of another dataset. The columns a client configures are those of any staging table the dataset
may have had, since nothing checks them against the present one; a processing may name a staging table that
is still to be loaded, or that a new submission has dropped (`present`, `StagingOf`). `reflect_tables` and `transform_staging_to_final` are the two
moments of the code between which others may change the joined table: both tables are
read for their columns, then one transaction drops and creates. `vetted` is history, for
`JoinVetted` only. `TableTransfer` adds the dump of a table (lock, definition, rows) and its
restoration elsewhere, with a stream that may be cut. `MaxRunning` bounds the runs in progress,
`MaxWrites` the tables written; both are bounds of the instance, not guards of the code.

### Sharing rules

`rules` are the committed rows of `integrity_link_rules`, `acl` the read and write rules of
the layer in GeoServer, `shared` and `public` the privileges of the record. A request is split
where another one can come in between: it loads the rule (no lock), flushes its write
(`flush`, which locks the row and may find it gone or, by the unique constraint of
`docker/datafeeder-init.sql`, twice there), sends the read rule, then the write rule
(`sync_acl_read`, `sync_acl_write`), commits, and only then calls GeoNetwork with the rules it
reads again. Under READ COMMITTED it sees its own flushed rows and what others have
committed. A write of the value that is already there flushes nothing and locks nothing,
and a flag is written only when it differs from the one that was loaded. A failure of
GeoServer rolls the rule back; one of GeoNetwork is logged.

### Ownership transfer

`table[s]` is the dataset whose rows the final table of schema `s` holds (one table
name for all datasets, the case where they meet), `datastore[w]` the schema the
datastore of a workspace was created with, `layers` the workspaces with the layer. The
reassignment is an `async` handler that holds the event loop while it cancels, moves
the table, publishes in the new workspace, moves back if that fails, deletes the old layer
and commits; the runs of Airflow and the threaded POST /process go on between its steps, callbacks
do not. A layer GeoServer refuses to delete stays, which the code only logs (`delete_layer`, `stale`); the
commit follows all the same. POST /process is two steps, the choice of a schema and a name (`chosen`) and
its commit, since the row may change organization in between. "config" is an operator who changes `USE_ORG_SCHEMA`, which the check of the
datastore's schema in the code is for.

### Dataset listing

A dataset is the number of its row by `created_at`. `matching[f]` are the rows that the filters `f` and the
rights of the user let through; `edit_dataset` changes them, standing for any edit of a title, a schedule,
an owner or a rule. A new row may be listed at once (an empty, prefilled or direct-access dataset) or get its
table later (`create_dataset`). `fetch_chunk` is one turn of the loop of
`list_integrity_links` (rows of the query, then those with a table), `count_listed` the total
of the first page, a query of its own; `requests` are the GET requests in flight,
`page` the signals of the list component, `browse` what happened since the list was loaded
from its start, for the properties only: a row that an edit takes out of the query counts as removed, one that it
brings in as added. Answers come in any order, or not at all. Users
are assumed not to click "load more" during the 300 ms for which a change of filters is
debounced; see below for those who do. `MaxChanges` bounds what comes and goes.

### Airflow runs

`run[r]` has the kind that its DAG and run id tell apart, its state (queued and running are one:
the code never distinguishes them) and the run that triggered it. `query` and `act` are the two
halves of one turn of `_for_each_dag_run`: a page of `LIMIT` matching runs, then each run of
it, whatever became of it meanwhile. `loops_of` lists the loops of the three calls,
`delete_ingestion_dag` retries once after a conflict. A query, a patch or the deletion of the DAG may raise
at any call (`raise`): the call ends there, with an error for a cancellation, silently for
`remove_ingestion_dag`, which is best effort. Two assumptions: fewer manual runs of
one dataset are active than a page holds (`MaxManual < LIMIT`; 100 in the code), because
spared runs that fill a page end the loop before the others are seen; and Airflow returns runs in
the order of their creation. A run that is forced to fail triggers nothing any more.

## Runs

| run | instance | what it shows |
|---|---|---|
| overlap | 1 dataset, 2 handlers, 2 uploads, 2 names, 3 runs, schedule, "overlap"; tasks, cleanup, publication fail, callbacks are lost | `WellFormed`, `LayerBacksDataId`, `UploadKeptForRun`, `PublishedSurvives`, `RefreshKeepsTable` |
| pair | 2 datasets of one organization, 3 uploads, 2 names, 4 runs, five faults, "settled" | `NoForeignData`, `DeletedLeavesNothing`, `KeepsContract` |
| liveness | 1 dataset of another platform or of this one, 1 upload, 2 runs, schedule, both executors, tasks and cancellations fail, "settled", fair | `PlatformWellFormed`, `RefreshCleansUp`, `WrittenGetsRetrieved`, `DeletedStopsRunning`, `BackendAnswers`, `EndedRunsAnswered` |
| platform | 2 datasets, one of them imported, 1 upload, 2 names, 2 runs, both executors, tasks fail, the backend restarts | `RetrievedWasWritten`, `RowsKept`, `AttachedComplete` |
| table_copies | 2 datasets, the first joins the second; five kinds of sources, two configurations, rules that change, 2 runs at a time, 2 writes, one copy | `LoadedWhole`, `ExcludedPreviewable`, `JoinVetted`, `RestoredWasPublished`, `WrittenAsShown`, `RefreshKeepsData` |
| sharing_one_at_a_time | 2 groups, 1 request at a time, GeoServer and GeoNetwork fail | `EveryoneFlag`, `RulesCommittedWithAcl`, `RecordFollowsRules` |
| ownership_moves | 1 scheduled dataset, 3 organizations, GeoServer refuses layers and deletions, the schemas change | `LayerReadsOwnTable`, `OldLayerWithdrawn`, `RefusedMovesNothing` |
| listing_pages | pages of one, chunks of two rows, 3 rows at first and 4 at most, 3 requests that may fail, 2 filters, 2 rows created, edited or deleted | `PagesMakeTheList`, `SkippedAtMostRemoved`, `RepeatedAtMostAdded`, `ShownMatchesFilters` |
| airflow_cancels | pages of two, 4 runs, 1 manual and 1 foreign, the three calls, deletions that fail, calls that raise, fair | `CancelledRunsAreOver`, `PurgedHistory`, `OthersSpared`, `CallsEnd` |
| two_organizations | 2 datasets, 2 organizations, 1 schema, no fault | the table name is not unique across organizations |
| sharing_race | 2 concurrent changes of rules, no fault | the ACL misses a committed rule |
| ownership_name_taken | 2 datasets of 2 organizations, no fault | a refused reassignment has moved the table |

Why the bounds are enough for what they look for: the interactions are between two requests
of one dataset, a request and a run, a run and a callback, or two datasets that want one name.
Two handlers, two datasets and two names give each of them; three runs give a first
processing, a refresh and a re-run; four runs with three uploads give a failed processing
between two good ones. In table_copies the sources are those that tell the branches apart: an
archive made by a Finder with metadata of its own, one with two datasets, one whose sample misleads
chardet, one in an encoding nobody declares, one that loses its geometry; of the two configurations,
one builds a point and gives an excluded column the name of a joined one, the other does so with the geometry. Two writes
give a table that is replaced while it is dumped. Three organizations give a way there and a way round; two groups give
a rule that a change must keep. Pages of one item over chunks of two rows give
chunks without any listed row, and items beyond the page; pages of two runs give one that
is half spared and a second one. Datasets, handlers, groups and organizations are
interchangeable (symmetry) in the runs without liveness or distinct organizations. Deadlock is not
checked where the identifiers of the instance run out and a deleted dataset needs nothing
more; it is in the sharing and ownership runs.

### Disagreements that have no run

The models show more places where the documents and the code differ, or a reader
would be surprised. They are described here and not run one by one.

* A refresh whose transformation raised ends as a success, since its last task runs
  on ALL_DONE; its success callback renews the retrieval date (`troubleshooting.en.md:25`).
* The failure callback of a first staging looks at the row, drops the staging table and then deletes the
  row without looking again (`staging.py:800-818`, a threaded handler). A success callback of a processing
  that is handled in between publishes the dataset, and the row goes: layer, table and record stay
  without one. It takes a dataset that is staged and processed, then staged again, with the second staging
  failing while the first processing ends. `PublishedSurvives` and `KeepsContract` say what
  `is_rerun` does give: no callback that looks at a published row takes it back.
* Two stagings of one dataset in flight (PUT /staging while the first run loads, or before its callback was
  handled, which the wizard does not wait for): the callback of the first deletes the file that the row names by then, the
  second one's, whose run then fails (`staging.py:718-728`). `UploadKeptForRun` says that nothing but
  the callback of such an earlier staging takes a file before it was read.
* A failure callback of a manual run drops the final table of that moment: when a refresh wrote it between
  the failure and the callback, the newer rows are dropped (`process.py:394`).
* A run of an ingestion DAG that the generator emits again between the first and the last step
  of a deletion, and that the best-effort purge does not stop, writes its table again.
* A first processing creates the GeoNetwork record before its run; when the run fails, then
  a new staging too, the row goes and the record stays (`troubleshooting.en.md:15`). So it does
  when the commit fails on a table name another dataset of the organization just took.
* A success callback is tried once. When it is lost the next processing writes a second
  table, and a deletion drops only that one (`managing_datasets.en.md:28`).
* A change of any rule drops the public privilege of the record (`clear=True`), while
  `gn_is_published` stays true.
* GeoServer takes the read rule and refuses the write rule: the rule is rolled back, the role
  keeps its read access until the next change.
* Two overlapping toggles of the public access may leave the rule without its flag.
* The rules page has a toggle for everyone; a client that names `*` in PUT /rules sets a rule which the flag
  of the toggle does not follow (`PageKeys` are those of the page).
* A reassignment commits although GeoServer refused to delete the layer of the former workspace
  (`geoserver.py:386-399` logs it, `integrity_link_admin.py:677` goes on). That layer reads a table which moved away,
  or, with one schema for all, goes on serving the data to those its ACL let in; it makes a way back
  a 409. `OldLayerWithdrawn` says that no other layer is left.
* `remove_ingestion_dag` suppresses what Airflow answers, queries included (`airflow_client.py:284-291`), and returns
  with runs still active; a deletion then goes on. `CancelledRunsAreOver` is about calls that Airflow answered.
* A run started after the cancellation of a reassignment writes a table in the former schema.
* The list page does not correct its offset after a deletion of its own: "load more" then skips
  one dataset (`SkippedAtMostRemoved` counts it). A deletion that overlaps a reload is
  subtracted twice from the total. A filter changed, "load more" clicked and the filter put back
  within 300 ms leave a list that mixes both.
* A refresh whose source turned empty replaces the table before the task notices and fails.
* A manual re-run drops the published table in a transaction of its own before it transforms.
  When the run fails then, or later (its failure callback drops the table once more), the layer and the
  row stay published without a table (`troubleshooting.en.md:18`). It is enough that the
  dataset was not staged again, or that a column of its source is called `id_datafeeder`:
  the preview shows it, the CREATE TABLE fails.
* With the local executor, a failing re-ingestion leaves its `temp_` table, which the comment says
  the transformation drops; the cancellation of runs does not stop threads; a restart
  forgets a run and its callback, so that the next processing writes a second table.
* An import in the mode that ingests again ends as a success in Airflow when its ingestion failed,
  and its callback stamps the row.
* PUT /data checks the names before the body is received: a row committed in between gets the
  restored table (`RowsKept` holds as the restoration refuses an existing table).
* A crash of the backend between the commit of an edit and the drop of the former staging table
  leaves that table.
* The layer of a direct-access dataset is not deleted with it.
* An archive with two formats of one dataset under one stem counts as one dataset; the `.shp.xml` beside
  a shapefile counts as a second one. Text in CP1250 that nothing declares is read as CP1252.
* The API accepts a new name for the geometry, which keeps its own (`staging.py:985-1032`): an excluded geometry
  renamed to a joined column's name makes the preview with excluded columns fail, although the plain
  one and the processing work (`renamed_geometry`, the exception of `ExcludedPreviewable`). A column renamed to
  `geom` beside the geometry or a point built from X/Y columns is not refused either: the SELECT then has two
  columns of one name, which the library refuses or tells apart (`unique_names`; the transaction may go
  either way in the model, and `WrittenAsShown` leaves it out).
* Bytes after the end of a gzip member in the same chunk are ignored by the restoration.
* PUT /metadata that overlaps PUT /staging may save the configuration of the former staging.

### Fairness

Weak fairness of every step of a run (Airflow schedules what it queued), of the second
half of every request (a started handler goes on) and of the generator (parsed in a
loop). Strong fairness of the callbacks: each finds the event loop busy again and again
while others come and go, and waiting requests are served in their order of arrival. None of
user requests, of the cron, or of a lost callback. Liveness is checked without lost
callbacks: with them, `WrittenGetsRetrieved` is false and nothing in the code retries.

The liveness run has both executors: the tasks of the local one are steps of a thread that
goes on (weak fairness, as for Airflow), the imports and restorations in progress
too. Restarts are left out of that run, as a restart with the local executor is a lost callback.

`AirflowRuns` assumes weak fairness of the steps of a call only (the loop is plain code in a
request); nothing obliges Airflow to start or end a run.

## Proofs

`DatasetLifecycleProofs` proves, for any datasets, handlers, bounds, faults and clients:

* `WellFormedAlways`: `Spec => []WellFormed`. `TypeOK` is not inductive by itself: the
  owner of a written table is the dataset of a run, which is typed as a dataset only if
  the run is one that was created; the table a deletion or a transformation indexes must be a name
  and not 0. `WellFormed` adds that a run which was created names a dataset, a source or a
  table according to its kind, that runs beyond `lastRun` were not created, and that a
  request in progress names what its next step uses. `TypeCorrect` follows.
* `PublishedSurvivesAlways`: `Spec => PublishedSurvives`, an action property: each action
  but `delete_dataset_row` and `rollback_commit` leaves every live row live, the latter is a step of a
  rollback in progress, and `staging_dag_failure_callback` starts one only when `last_retrieval` is 0.
* `UploadKeptForRunAlways`, an action property, from `UploadOrder`: uploads are numbered in turn, the runs of a
  dataset stage them in that order, no row names the upload of another one's run, and a request that replaces a
  source still has its file when it triggers the run; so a file that has not been read can only be deleted by the
  callback of an earlier run of its dataset.
* `NoTempLeakAlways`: assuming no "cleanup" fault, `Spec => []NoTempLeak`, from the
  inductive `TempInv` (only runs that ingest again own a temporary table).
* `RefreshKeepsTableAlways`, an action property, from the inductive `DropInv`: only the runs users
  ask for ever stand before "drop" (a refresh swaps its temporary table in), and a re-ingestion by the
  local executor is no step of this `Spec`. What is left to show is that callbacks and requests
  other than a deletion empty no final table.
* `OwnLayerBacksDataId`: if no two datasets share an organization, `Spec => []LayerBacksDataId`,
  whatever users do at once. `OwnLayerInv` says that the layer a dataset names, or that a request
  which published it is about to write into the row, is in GeoServer unless a deletion of the dataset is
  in progress. The assumption is needed: with two datasets of one organization and users
  who overlap, a deletion that read the row before it was processed again deletes by the old name, and
  takes the layer of the dataset that got this name since (TLC needs 4 runs for it).

The step lemmas of the lifecycle are stated per action, over the typed parts of the state
(`RunsInv`, `RequestsInv`, `StoreInv`); `Trigger`, `Goto`, `Cancelled` have lemmas of their
own because most actions use them.

It also proves `ContractKept`, that `Spec` implements `DatasetContract` under the
mapping of `DatasetLifecycle!Contract`, step by step (a failure callback that finds a draft is `Doom`, its commit
`Discard`), and `NamesReservedAlways`, that in the contract
and hence in the code no two datasets of an organization hold one name (the unique constraint; what it
does not give, that the tables differ between organizations, is the run two_organizations).

`DatasetSettledProofs` proves what needs users who wait (`Clients = "settled"`, which the pages intend
and nothing in the API enforces), for any numbers and all other faults. Each invariant rests on those before it:

* `OneAtATime`: the requests of a dataset, its runs and their callbacks exclude each
  other, refreshes aside, and a dataset without a row has none. A settled user acts on what is
  at rest; the proof is that each step hands over from a request to a run, to a callback, to
  a request, and never to two of them.
* `UploadInv`: uploads are numbered in turn, no two rows have the same, and a staging run or
  a replacing request is of the last upload of its dataset.
* `NoSchedule`, `NoTemp`, for `Recurring = {}`: no row, DAG or run is scheduled, and there is no
  temporary table. Then every step is about one dataset (`CalmStep`), which divides the invariants
  below into what happens to that dataset and what the others keep.
* `NameInv`: what a run or a request copied from the row is what the row still says; a dataset which was
  retrieved once has a name for good, and the layer it names is that name.
* `LayerInv`, with the names reserved by the contract: `LayerBacksDataIdAlways`, for datasets that
  share an organization, where `OwnLayerBacksDataId` does not apply.
* `TableInv`, if no callback is lost: a dataset has rows in no table but the one it names. A failure callback that
  is lost leaves a dataset which was never retrieved free to take another name while its table
  is still there. It gives `NoForeignDataAlways` in one schema of one organization; with two organizations
  the run two_organizations refutes it, with a lost callback two datasets and four runs do, with a schedule
  a deletion that overlaps a refresh does.
* `SourceInv`: a run finds its source among the staging tables only while its dataset exists and the
  source is its last upload, or the one a request is replacing. With `TableInv` and `NoTemp` it gives
  `DeletedLeavesNothingAlways`; a lost callback or a refresh that a deletion overlaps refutes that as well.

`DatasetPlatformProofs` proves the invariants and action properties of `DatasetPlatform`, with either
executor, imports, restorations, the administrator and restarts. Whatever users do and whatever fails:

* `PlatformWellFormedAlways`, from `PlatformInv`: each step of the local executor and of the
  administration keeps `WellFormed`, and without Airflow nothing is scheduled. An import also
  names its table.
* `RetrievedWasWrittenAlways`: `RetrievedInv` extends the property to the runs that ended
  well and to the requests that publish them. `Follow` says once, per step, what runs, requests,
  rows and DAGs may become of each other, and the invariant is read off it.
* `RefreshCleansUpAlways`, assuming no "cleanup" fault, from `TempInv`, while the executor is Airflow.
* `PlatformNamesReservedAlways`: imports and restarts keep the unique names, too (`NamesApart`).

And for users who wait, without schedules (`OrderlyAlways`: `Calm` and `NameInv` go on holding; by `ImportInv` one
request at a time holds the event loop, and an import has no row until it ends), when all datasets are of
one organization:

* `RowsKeptAlways`: `TablesStep` says, for every step, that a table with rows loses them to a
  deletion by name or to a run by name; `WhoWrites` says that these are of the dataset that
  holds the name now. `NamesApart` makes it the dataset in question.
* `AttachedCompleteAlways`, from `AttachInv`: what an import found when it checked, a table under the name,
  whoever's rows it holds, and the layer, is still there when it commits, unless the name was taken meanwhile
  by a dataset that nobody asks about, and then the commit fails. While the import holds the loop no callback is handled
  (`LoopStep`), so a table can only go by a run or a deletion whose dataset has the name.

The organizations share one schema in the model, as they do in the code without `USE_ORG_SCHEMA`. Hence the
last assumption: the deletion of another organization's dataset drops the table of the same name.

`TableTransferProofs` proves every property of the run table_copies for any datasets,
users, rules, sources, configurations and numbers of runs and writes, over `TransformationTypeOK`
(what is staged was ingested from a source, what is configured is a configuration):

* `RestoredWasPublishedAlways`: between the definition and the rows the dumped table is the same
  write, because no step touches the table of a dataset in `locked` (`LockedKept`).
* `JoinVettedAlways`: the join of a configuration, the target of a run and the join of a table are
  all in `vetted` (`AccessInv`); each is copied from the one before, and only a save or a
  processing adds one, after `resolve_join_target`.
* `ExcludedPreviewableAlways`, from every configuration naming each of its columns (`NamesInv`). Its premise
  is needed: an excluded geometry with the name of a joined column refutes it.
* `LoadedWholeAlways`, assuming that what the files of an accepted archive declare of their text is
  right (`Trustworthy`; a `.dbf` is believed up to what chardet confuses). The sources of the
  instance satisfy it.
* `RefreshKeepsDataAlways` and `WrittenAsShownAlways`, action properties, assuming that
  `None` is no table (`TablesAreSomething`); the first rests on refreshes not being re-runs
  (`RefreshInv`), the second on a manual run joining what its configuration joins
  (`TargetInv`), as long as the names of the SELECT are unique.

`SharingRulesProofs`: `SharingTypeOKAlways`, for any number of concurrent requests, needs that
no rule, request or pending synchronisation lets EVERYONE write (`TypeInv`), since the type of the
ACL says so. With requests served one at a time (`Handlers = {h}`), `EveryoneFlagAlways`,
`RulesCommittedWithAclAlways` and `RecordFollowsRulesAlways` follow from `SyncInv`: what the request
found is still in the rules, and from the flush on what was sent to GeoServer is what `visible`
says it will commit. The assumption is needed, as the run sharing_race shows.

`OwnershipTransferProofs`: `OwnershipTypeOKAlways` for any datasets; and for one dataset, any
organizations and any failure but that of moving the table back ("restore"),
`LayerReadsOwnTableAlways`, `OldLayerWithdrawnAlways` and `RefusedMovesNothingAlways`. `LayerInv` says
that at rest the only layer is the one that `data_id` names, in the workspace of the dataset's
organization, those that GeoServer refused to delete (`stale`) aside, and that its datastore reads the table; `MovingInv` says phase by phase where
layer and table are during a reassignment. Two datasets of one name refute the last property
(ownership_name_taken).

`AirflowRunsProofs`, for any size of page and number of runs:

* `OthersSparedAlways`, since a page holds runs of the dataset and DAG that are searched (`SparedInv`).
* `CancelledRunsAreOverAlways`, for cancellations and removals of a schedule that no exception ends: in the DAGs a call has left
  behind nothing it is about is active, and nothing joins them because their parents are over
  (`CancelInv`). The second loop of a removal spares manual runs and ends on a page
  without progress: such a page is still to be worked on, or was all there is (`RemovalInv`), since the manual
  runs are fewer than a page (`ManualInv`, from `MaxManual < LIMIT`).
* `RunsTypeOKAlways`: a page has at most `LIMIT` runs (`PageInv`). The page is defined by the rank of a run
  among those that match; `FirstPage` shows that it has `LIMIT` runs, or all of them, by taking the
  smallest run outside the page: those before it are in the page, and they are `LIMIT` at least.
* `PurgedHistoryAlways`: the DAGs a purge without a failure has left behind hold no run that existed when
  it began (`PurgeInv`); an answer without runs means that there are none, by `FirstPage`.

`DatasetListingProofs`, for any rows, filters, size of page and numbers of requests and changes. Everything is
said in offsets: the offset of a row is the number of newer rows its query returns (`Off`), and a list has
`Taken` the rows a request found before some offset. The lemmas on ranks (`RankType`, `NthOf`, `NthFirst`,
`OffOnto`) stand in for what one would say of sequences by induction.

* `ListingTypeOKAlways` and `ShownMatchesFiltersAlways`, from `ListInv`: request numbers are unique, only the
  current request can change the list, and it was made with the filters of the page; what it finds was let
  through by them at that moment, which `matched` remembers. A request accumulates rows at
  offsets it has scanned, which gives its answer a next offset there (`AnswerIs`).
* `SkippedAtMostRemovedAlways` and `RepeatedAtMostAddedAlways`, from `CountInv`. A row that comes, at the head
  when it is created and anywhere when it is edited, moves the older ones by one: at most one taken row, another or
  itself, goes past an offset and may be found again (`RowComes`). A row that goes moves at most one row that was not taken before it, where no later request looks (`RowGoes`). So for an
  offset t the repeated rows and the taken ones that are now at t or after it (`Ahead`) are at most the
  added; the steady ones before t that were not taken (`Behind`) at most the removed. Of a request this
  must be known for *every* offset between its start and what it scanned: `next_offset` goes back to the first
  item that did not fit, and rows may move between two chunks and until the answer is received. A chunk
  extends it to where it ends (`CountFinds`).
* `PagesMakeTheListAlways`, from `OrderInv`: while nothing changes a request finds the rows of the list between
  its offset and what it scanned, each at its own offset, and the list is in descending order and ends at
  `nextOffset`. Such a list is the beginning of the newest rows (`NewestIs`).

Only model-checked are the liveness properties (`WrittenGetsRetrieved`, `DeletedStopsRunning`, `BackendAnswers`,
`EndedRunsAnswered`, `CallsEnd`), like everything that depends on ENABLED. Every invariant and action property of
the runs is stated by a theorem.

## Not modelled

Listed with their reasons in `PROJECT.json`, "components". In what is modelled, left out:
casts, filters and the detection of types, which compute on values; the best-effort drops that
fail by themselves; the staging timeout after which a killed ogr2ogr may still create its
table; datasets without a table (empty, prefilled, direct access) and their import; the
reuse of a schema and table name by a new dataset between the moment a join is resolved and the
moment it is read; the prediction of a record's geography when a dataset is processed, which
its callback corrects; a crash of Airflow itself; in the sharing rules, the resolution of
names by the console; in the listing, the order of two rows created at the same instant; rows that a
staging run has loaded in part when a processing reads them (the table is there or not).

## Plan

1. (done) The life of a dataset, and its first theorems.
2. (done) Sharing rules, ownership transfer, listing, Airflow runs.
3. (done) The local executor, and the restart of the backend.
4. (done, but for datasets without a table) Platform import and export, the administrator's deletion.
5. (done) The contract of a dataset, and the proof that `DatasetLifecycle` implements it.
6. (done) Ingestion, transformation, preview and joins of the data library, the copy of a table, and their
   proofs.
7. Open: an abstract rule store implemented by `SharingRules` served one at a time; datasets
   without a table; access control of the list.
8. (done) Proofs about refreshes, sharing rules, ownership and Airflow runs.
9. (done) Proofs of `LayerBacksDataId`, `NoForeignData`, `UploadKeptForRun` and `DeletedLeavesNothing`, of the
   properties of `DatasetPlatform`, of what is left of `AirflowRuns`, and of the listing.
10. Open: `UploadKeptForRun` and `DeletedLeavesNothing` on the platform; the uniqueness of names for schedules and
    overlapping users beyond the contract.
