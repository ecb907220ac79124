------------------------------- MODULE ElDags -------------------------------
(***************************************************************************)
(* The DAGs of apps/elt/dags as Airflow runs them: staging_dag,            *)
(* process_dag (manual runs read the dataset's staging table, scheduled    *)
(* runs re-ingest its source), the generator of the ingestion_<id> DAGs,   *)
(* and the end of a run, which calls one callback URL once.                *)
(***************************************************************************)
EXTENDS DatasetState

\* A task may raise at any time, and does when its input is missing.
MayFail == "task" \in Faults

\* A FILE source is downloaded from the backend's temporary files.
source_reachable(r) == run[r].is_file => run[r].source \in files

-----------------------------------------------------------------------------
(* staging_dag *)

\* ingestion_group: ogr2ogr fills the staging table; when it stops halfway the
\* table may exist already.
initial_ingestion(r) ==
    LET u == run[r].source IN
    /\ run[r].kind = "staging" /\ run[r].step = "ingest"
    /\ \/ /\ source_reachable(r)
          /\ staging' = staging \cup {u}
          /\ run' = Goto(r, "success")
       \/ /\ MayFail \/ ~source_reachable(r)
          /\ \/ staging' = staging
             \/ source_reachable(r) /\ staging' = staging \cup {u}
          /\ run' = Goto(r, "failed")
    /\ UNCHANGED <<backendVars, temp, owner, hollow, catalogVars, dag, lastRun, req>>

-----------------------------------------------------------------------------
(* process_dag *)

\* The last task never runs after a failure.
no_clean_on_failure(r) == "failed"

\* Refresh mode: a run without a staging table ingests its source again. The cron
\* starts such runs, and so does the import of a dataset without its data.
re_ingests(r) == run[r].kind \in {"scheduled", "reimport"}

\* Where a run goes when its ingestion or its transformation raises. In direct
\* mode clean_staging_table_task is skipped and the run fails. In refresh mode
\* it runs all the same (clean_on_failure), and being the last task it alone
\* decides the state of the run.
after_failure(r) == IF re_ingests(r) THEN "clean" ELSE "failed"

\* Refresh mode: the source is ingested again, into a table of the run.
refresh_ingestion(r) ==
    /\ re_ingests(r) /\ run[r].step = "ingest"
    /\ \/ /\ source_reachable(r)
          /\ temp' = temp \cup {r}
          /\ run' = Goto(r, "transform")
       \/ /\ MayFail \/ ~source_reachable(r)
          /\ \/ temp' = temp
             \/ source_reachable(r) /\ temp' = temp \cup {r}
          /\ run' = Goto(r, after_failure(r))
    /\ UNCHANGED <<backendVars, staging, owner, hollow, catalogVars, dag, lastRun, req>>

\* read_transform_write_task, first half of a re-run: the previous final table
\* is dropped in a transaction of its own.
drop_previous_final_table(r) ==
    LET name == run[r].final_table_name IN
    /\ run[r].step = "drop"
    /\ owner' = [owner EXCEPT ![name] = NoLink]
    /\ hollow' = hollow \ {name}
    /\ run' = Goto(r, "transform")
    /\ UNCHANGED <<backendVars, staging, temp, catalogVars, dag, lastRun, req>>

\* The table a run transforms still exists.
input_exists(r) == IF re_ingests(r) THEN r \in temp ELSE run[r].source \in staging

\* read_transform_write_task: transform_staging_to_final replaces the final
\* table in one transaction. No row at all is an error raised after the commit.
read_transform_write_task(r) ==
    LET name == run[r].final_table_name IN
    /\ run[r].step = "transform"
    /\ \/ \* rows written
          /\ input_exists(r)
          /\ owner' = [owner EXCEPT ![name] = run[r].link]
          /\ hollow' = hollow \ {name}
          /\ run' = [run EXCEPT ![r] = [@ EXCEPT !.step = "clean", !.wrote = TRUE]]
       \/ \* "No data to write after transformation."
          /\ input_exists(r) /\ MayFail
          /\ owner' = [owner EXCEPT ![name] = run[r].link]
          /\ hollow' = hollow \cup {name}
          /\ run' = Goto(r, after_failure(r))
       \/ \* the transaction is rolled back
          /\ MayFail \/ ~input_exists(r)
          /\ run' = Goto(r, after_failure(r))
          /\ UNCHANGED <<owner, hollow>>
    /\ UNCHANGED <<backendVars, staging, temp, catalogVars, dag, lastRun, req>>

\* The staging table a run drops at its end.
tables_to_clean(r) == IF re_ingests(r) THEN {r} ELSE {run[r].source}

clean_staging_table_task(r) ==
    /\ run[r].step = "clean"
    /\ \/ /\ IF re_ingests(r)
             THEN temp' = temp \ tables_to_clean(r) /\ UNCHANGED staging
             ELSE staging' = staging \ tables_to_clean(r) /\ UNCHANGED temp
          /\ run' = Goto(r, "success")
       \/ /\ "cleanup" \in Faults
          /\ run' = Goto(r, "failed")
          /\ UNCHANGED <<staging, temp>>
    /\ UNCHANGED <<backendVars, owner, hollow, catalogVars, dag, lastRun, req>>

\* call_callback tries once, with a timeout and no retry.
callback_lost(r) ==
    /\ "callback" \in Faults
    /\ run[r].step \in {"success", "failed"}
    /\ run' = CallbackCalled(r)
    /\ UNCHANGED <<backendVars, pgVars, catalogVars, dag, lastRun, req>>

-----------------------------------------------------------------------------
(* process-dag-generator.py *)

\* A DAG once emitted is kept when the schedule or the row is gone.
never_removed(l) ==
    IF row[l].schedule
    THEN [ parsed |-> TRUE, source |-> row[l].staging_table_name,
           is_file |-> row[l].is_file, final_table_name |-> row[l].final_table_name ]
    ELSE dag[l]

\* The DAG the generator emits for a dataset: it carries the row's values of that
\* moment, and is not emitted without a row and a schedule.
emitted_dag(l) ==
    IF Live(l) /\ row[l].schedule
    THEN [ parsed |-> TRUE, source |-> row[l].staging_table_name,
           is_file |-> row[l].is_file, final_table_name |-> row[l].final_table_name ]
    ELSE NoDag

\* The DAG processor parses the generator again.
load_scheduled_integrity_links(l) ==
    /\ dag[l] # emitted_dag(l)
    /\ dag' = [dag EXCEPT ![l] = emitted_dag(l)]
    /\ UNCHANGED <<backendVars, pgVars, catalogVars, run, lastRun, req>>

ScheduledRun(l) ==
    [ NoRun EXCEPT !.kind = "scheduled", !.link = l, !.source = dag[l].source,
                   !.is_file = dag[l].is_file,
                   !.final_table_name = dag[l].final_table_name, !.step = "ingest" ]

\* A conf without a table name is accepted.
any_conf(l) == TRUE

\* A dataset never processed has no table name, which process_dag's params refuse.
conf_accepted(l) == dag[l].final_table_name # 0

\* The cron fires: an ingestion_<id> run triggers one process_dag run and waits
\* for it (max_active_runs=1).
trigger_process_dag(l) ==
    /\ dag[l].parsed /\ conf_accepted(l)
    /\ ~ \E r \in Unfinished(l) : run[r].kind = "scheduled"
    /\ RunsLeft
    /\ lastRun' = lastRun + 1
    /\ run' = [run EXCEPT ![lastRun + 1] = ScheduledRun(l)]
    /\ UNCHANGED <<backendVars, pgVars, catalogVars, dag, req>>

RunStep(r) ==
    \/ initial_ingestion(r)
    \/ refresh_ingestion(r)
    \/ drop_previous_final_table(r)
    \/ read_transform_write_task(r)
    \/ clean_staging_table_task(r)

AirflowNext ==
    \/ \E r \in Runs : RunStep(r)
    \/ \E r \in Runs : callback_lost(r)
    \/ \E l \in Links : load_scheduled_integrity_links(l)
    \/ \E l \in Links : trigger_process_dag(l)
=============================================================================
