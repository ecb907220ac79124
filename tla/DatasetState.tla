---------------------------- MODULE DatasetState ----------------------------
(***************************************************************************)
(* The state that the backend, the Airflow DAGs, PostGIS, GeoServer and    *)
(* GeoNetwork keep about datasets, and the helpers shared by the modules   *)
(* that act on it.                                                         *)
(*                                                                         *)
(* Identifiers are numbers, 0 standing for NULL:                           *)
(*   - an upload number stands for one POST or PUT /staging: the uuid      *)
(*     staging_table_name, the source_url and the temporary file of that   *)
(*     request all change together, so one number names the three;         *)
(*   - a name number n stands for the n-th candidate of                    *)
(*     get_available_table_name (title, title_1, title_2, ...); all the    *)
(*     datasets share one title and one schema, the case where they meet   *)
(*     (USE_ORG_SCHEMA is false by default: organizations share a schema); *)
(*   - a run number stands for one dag_run of staging_dag or process_dag.  *)
(***************************************************************************)
EXTENDS Naturals, FiniteSets

CONSTANTS
    Links,       \* ids of IntegrityLink rows (one per dataset)
    NoLink,      \* owner of a table that does not exist
    Organizations,
    integrity_organization,  \* organization of each dataset: the unit of the
                             \* UNIQUE constraint, and of GeoServer workspaces
    Handlers,    \* requests the backend executes at the same time
    MaxUploads,  \* bound: POST/PUT /staging requests
    MaxNames,    \* bound: max_attempts of get_available_table_name
    MaxRuns,     \* bound: DAG runs
    Recurring,   \* datasets whose owner uses a schedule
    Faults,      \* what may go wrong, see FaultKinds
    Clients      \* how long users wait between two requests, see MayAct

FaultKinds ==
    { "task",      \* an ingestion or a transformation task raises
      "cleanup",   \* clean_staging_table_task raises
      "trigger",   \* the executor refuses a run (Airflow down, run id taken)
      "callback",  \* the single callback call of a run never arrives
      "publish",   \* GeoServer refuses the layer
      "record",    \* GeoNetwork refuses the record
      "cancel",    \* the Airflow API fails while runs are being cancelled
      "restart" }  \* the backend stops and starts again

ASSUME ConstantsAssumption ==
    /\ NoLink \notin Links
    /\ integrity_organization \in [Links -> Organizations]
    /\ IsFiniteSet(Handlers)
    /\ MaxUploads \in Nat /\ MaxNames \in Nat /\ MaxRuns \in Nat
    /\ Recurring \subseteq Links
    /\ Faults \subseteq FaultKinds
    /\ Clients \in {"overlap", "wizard", "settled"}

VARIABLES
    row,         \* datafeeder.integrity_link, by dataset id
    lastUpload,  \* uploads numbered so far
    files,       \* temporary upload files on the backend's disk
    staging,     \* tables <uuid> of the staging schema, by upload
    temp,        \* tables temp_<hex> of the staging schema, by run
    owner,       \* final tables: the dataset whose rows they hold, or NoLink
    hollow,      \* final tables that hold no row
    layers,      \* GeoServer layers, by workspace and table name
    records,     \* GeoNetwork records, by dataset id
    dag,         \* ingestion_<id> DAGs as last parsed by the generator
    run,         \* DAG runs of staging_dag and process_dag
    lastRun,     \* runs numbered so far
    req          \* requests in progress in the backend, between two steps

backendVars == <<row, lastUpload, files>>
pgVars      == <<staging, temp, owner, hollow>>
catalogVars == <<layers, records>>
airflowVars == <<dag, run, lastRun>>
vars == <<row, lastUpload, files, staging, temp, owner, hollow, layers, records,
          dag, run, lastRun, req>>

-----------------------------------------------------------------------------
(* Shapes of the state *)

Uploads == 1..MaxUploads
Names   == 1..MaxNames
Runs    == 1..MaxRuns

\* The columns of an IntegrityLink row that the ingestion code decides on.
IntegrityLink ==
    [ state : {"unborn", "live", "rolled_back", "deleted", "removed"},
      \* only "live" is a row; "removed" ones kept their table and their layer
      staging_table_name : 0..MaxUploads,    \* and source_url
      is_file : BOOLEAN,                     \* source_import_type = FILE
      final_table_name : 0..MaxNames,
      last_retrieval : 0..(MaxRuns + 1),     \* the run last_retrieval_timestamp records
      schedule : BOOLEAN,
      data_id : 0..MaxNames,
      metadata_id : BOOLEAN ]

\* last_retrieval_timestamp of a dataset attached to data from another platform.
Imported == MaxRuns + 1

Blank == [ state |-> "unborn", staging_table_name |-> 0, is_file |-> FALSE,
           final_table_name |-> 0, last_retrieval |-> 0, schedule |-> FALSE,
           data_id |-> 0, metadata_id |-> FALSE ]

TaskSteps == {"ingest", "drop", "transform", "clean"}
RunSteps  == {"none"} \cup TaskSteps \cup {"success", "failed", "over", "cancelled"}

\* A dag_run: its conf, the task it stands before, and whether
\* read_transform_write_task wrote rows. "success" and "failed" are ended runs
\* whose callback is still to be called, "over" ended runs that called it.
DagRun ==
    [ kind : {"none", "staging", "manual", "scheduled", "reimport"},
      link : Links \cup {NoLink},
      source : 0..MaxUploads,
      is_file : BOOLEAN,
      final_table_name : 0..MaxNames,
      step : RunSteps,
      wrote : BOOLEAN ]

NoRun == [ kind |-> "none", link |-> NoLink, source |-> 0, is_file |-> FALSE,
           final_table_name |-> 0, step |-> "none", wrote |-> FALSE ]

\* The conf an ingestion_<id> DAG carries since it was last parsed.
IngestionDag ==
    [ parsed : BOOLEAN, source : 0..MaxUploads, is_file : BOOLEAN,
      final_table_name : 0..MaxNames ]

NoDag == [ parsed |-> FALSE, source |-> 0, is_file |-> FALSE, final_table_name |-> 0 ]

\* A request handler between two steps: its local variables.
UserOps == {"edit", "process", "unschedule", "delete", "forget"}

Request ==
    [ op : {"idle", "publish", "rollback", "discard", "import", "restore", "remove"}
             \cup UserOps,
      link : Links \cup {NoLink},
      run : 0..MaxRuns,
      upload : 0..MaxUploads,
      staging_table_name : 0..MaxUploads,
      final_table_name : 0..MaxNames,
      flag : BOOLEAN ]    \* recurrence given | layer published | metadata_id set

Idle == [ op |-> "idle", link |-> NoLink, run |-> 0, upload |-> 0,
          staging_table_name |-> 0, final_table_name |-> 0, flag |-> FALSE ]

TypeOK ==
    /\ row \in [Links -> IntegrityLink]
    /\ lastUpload \in 0..MaxUploads
    /\ files \subseteq Uploads
    /\ staging \subseteq Uploads
    /\ temp \subseteq Runs
    /\ owner \in [Names -> Links \cup {NoLink}]
    /\ hollow \subseteq Names
    /\ layers \subseteq Organizations \X Names
    /\ records \subseteq Links
    /\ dag \in [Links -> IngestionDag]
    /\ run \in [Runs -> DagRun]
    /\ lastRun \in 0..MaxRuns
    /\ req \in [Handlers -> Request]

Init ==
    /\ row = [l \in Links |-> Blank]
    /\ lastUpload = 0
    /\ files = {}
    /\ staging = {}
    /\ temp = {}
    /\ owner = [n \in Names |-> NoLink]
    /\ hollow = {}
    /\ layers = {}
    /\ records = {}
    /\ dag = [l \in Links |-> NoDag]
    /\ run = [r \in Runs |-> NoRun]
    /\ lastRun = 0
    /\ req = [h \in Handlers |-> Idle]

-----------------------------------------------------------------------------
(* Rows and requests *)

Live(l) == row[l].state = "live"

\* Layers live in the workspace of their organization.
layer(l, name) == <<integrity_organization[l], name>>

\* The backend runs one uvicorn worker. A handler declared async keeps the
\* event loop from its first to its last step, and no request starts
\* meanwhile; the handlers declared with a plain def run in threads.
LoopFree == \A h \in Handlers : req[h].op \notin {"edit", "publish", "import"}

CanStart(h) == LoopFree /\ req[h].op = "idle"

\* The API accepts any request at any time ("overlap"). The import wizard and
\* the dashboard poll the DAG run and wait for its end ("wizard"); they do not
\* see whether its callback was handled ("settled" users wait for that too).
MayAct(l) ==
    \/ Clients = "overlap"
    \/ /\ \A h \in Handlers : req[h].link = l => req[h].op \notin UserOps
       /\ \A r \in Runs : run[r].link = l /\ run[r].kind # "scheduled"
                            => run[r].step \notin TaskSteps
       /\ Clients = "settled" =>
            /\ \A r \in Runs : run[r].link = l
                  => run[r].step \notin TaskSteps \cup {"success", "failed"}
            /\ \A h \in Handlers : req[h].link # l

\* Both go on to the processing step only after a staging run that succeeded.
MayProcess(l) ==
    /\ MayAct(l)
    /\ Clients # "overlap" =>
          \A r \in Runs : run[r].link = l /\ run[r].kind = "staging"
                             => run[r].step # "failed"

-----------------------------------------------------------------------------
(* Airflow runs *)

Active(r) == run[r].step \in TaskSteps

\* Requests that already passed the bound on runs and will trigger one.
WillTrigger == {h \in Handlers : req[h].op \in {"edit", "process", "import"}}
RunsLeft == lastRun + Cardinality(WillTrigger) < MaxRuns

\* The executor creates a run, or raises when "trigger" faults happen.
Trigger(conf) ==
    \/ /\ lastRun < MaxRuns
       /\ lastRun' = lastRun + 1
       /\ run' = [run EXCEPT ![lastRun + 1] = conf]
    \/ "trigger" \in Faults /\ UNCHANGED <<run, lastRun>>

\* Runs of a dataset that Airflow reports queued or running.
Unfinished(l) == {r \in Runs : run[r].link = l /\ Active(r)}

\* PATCH state=failed: the tasks not started are skipped and no callback is
\* called, the state being set outside the scheduler.
Cancelled(S) ==
    [r \in Runs |-> IF r \in S THEN [run[r] EXCEPT !.step = "cancelled"] ELSE run[r]]

\* A step of run r.
Goto(r, step) == [run EXCEPT ![r].step = step]

\* What is left to Airflow at the end of a run once its callback URL was called.
CallbackCalled(r) == Goto(r, "over")
=============================================================================
