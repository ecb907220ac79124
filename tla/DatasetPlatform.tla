--------------------------- MODULE DatasetPlatform ---------------------------
(***************************************************************************)
(* The whole platform: the life of a dataset with the administration, and  *)
(* with the executor the settings choose, Airflow or the backend itself,   *)
(* where the backend may stop and start again.                             *)
(***************************************************************************)
EXTENDS DatasetLifecycle, LocalExecutor, PlatformAdministration

CONSTANT Executors    \* values TASK_EXECUTOR may have

ASSUME ExecutorsAssumption == Executors \subseteq {"AIRFLOW", "LOCAL"}

VARIABLE task_executor    \* get_task_executor is cached for the life of the process

platformVars == <<vars, task_executor>>

PlatformInit == Init /\ task_executor \in Executors

Airflow == task_executor = "AIRFLOW"
Local   == task_executor = "LOCAL"

\* Without Airflow, no run but a staging or a reimport keeps requests out.
LocalFree == Local /\ ~LoopHeld

\* Requests in progress when a run holds the event loop are those in threads.
ThreadGoesOn ==
    \/ \E h \in Handlers : process_staging_data_commit(h)
    \/ \E h \in Handlers : delete_dataset_data(h)
    \/ \E h \in Handlers : delete_dataset_row(h) /\ UNCHANGED run
    \/ \E h \in Handlers : clear_schedule_commit(h)
    \/ \E h \in Handlers : rollback_drop(h)
    \/ \E h \in Handlers : rollback_commit(h)

AirflowPlatform == Airflow /\ Next

LocalPlatform ==
    \/ LocalFree /\ StagingNext
    \/ LocalFree /\ ProcessNext
    \/ LocalFree /\ \E l \in Links : update_schedule(l)
    \/ LocalFree /\ \E h \in Handlers, l \in Links : clear_schedule(h, l)
    \/ Local /\ ThreadGoesOn
    \/ Local /\ LocalNext

Administration ==
    \/ (Airflow \/ LocalFree) /\ AdministrationNext(Airflow)
    \/ AdministrationGoesOn(Airflow)

\* The next step of a request in progress.
request_goes_on(h) ==
    \/ edit_staging_trigger(h)
    \/ rollback_drop(h)
    \/ rollback_commit(h)
    \/ process_staging_data_commit(h)
    \/ process_dag_success_commit(h)
    \/ clear_schedule_commit(h)
    \/ delete_dataset_data(h)
    \/ delete_dataset_row(h) /\ (Local => UNCHANGED run)
    \/ restore_table(h)
    \/ import_integrity_link_commit(h)
    \/ remove_dataset(h, Airflow)

\* A callback of run r, once the event loop is free.
callback_handled(r) ==
    /\ Airflow \/ LocalFree
    /\ \/ staging_dag_success_callback(r)
       \/ \E h \in Handlers : staging_dag_failure_callback(h, r)
       \/ \E h \in Handlers : process_dag_success_publish(h, r)
       \/ process_dag_failure_callback(r)

\* The backend stops at any moment, in the middle of its requests, and starts again.
restart ==
    /\ "restart" \in Faults
    /\ run' = IF Local THEN local_registry_lost ELSE run
    /\ req' = [h \in Handlers |-> Idle]
    /\ UNCHANGED <<backendVars, pgVars, catalogVars, dag, lastRun>>

PlatformNext ==
    /\ AirflowPlatform \/ LocalPlatform \/ Administration \/ restart
    /\ UNCHANGED task_executor

PlatformSpec == PlatformInit /\ [][PlatformNext]_platformVars

\* The fairness of DatasetLifecycle with either executor: the thread of a run and the
\* requests in progress go on, callbacks wait for their turn.
PlatformFairness ==
    /\ \A r \in Runs :
         /\ WF_platformVars(Airflow /\ RunStep(r) /\ UNCHANGED task_executor)
         /\ WF_platformVars(Local /\ LocalStep(r) /\ UNCHANGED task_executor)
         /\ SF_platformVars(callback_handled(r) /\ UNCHANGED task_executor)
    /\ \A h \in Handlers :
         WF_platformVars(request_goes_on(h) /\ UNCHANGED task_executor)
    /\ \A l \in Links :
         WF_platformVars(Airflow /\ load_scheduled_integrity_links(l)
                         /\ UNCHANGED task_executor)

PlatformFairSpec == PlatformSpec /\ PlatformFairness

-----------------------------------------------------------------------------
(* Properties *)

\* The types of the lifecycle hold here; without Airflow there is neither an
\* ingestion DAG nor a scheduled run.
PlatformWellFormed ==
    /\ WellFormed
    /\ task_executor \in Executors
    /\ Local => \A l \in Links, r \in Runs :
                   dag[l] = NoDag /\ run[r].kind # "scheduled"

\* NoTempLeak is about Airflow. In the backend a re-ingestion that fails leaves its
\* table (local_executor.py, _run_process).
RefreshCleansUp == Airflow => NoTempLeak

\* The retrieval date of a dataset is that of a run that wrote rows, but for the
\* refreshes of Airflow, whose last task decides alone (local_executor.py, _transform).
RetrievedWasWritten ==
    \A l \in Links : Live(l) /\ row[l].last_retrieval \in Runs
        => \/ run[row[l].last_retrieval].wrote
           \/ Airflow /\ re_ingests(row[l].last_retrieval)

\* The table a live dataset names keeps its rows until the dataset is deleted or
\* processed by its own user: no import, no restored table and no run of another
\* dataset replaces them (table_transfer.py, restore_table; the unique constraint).
RowsKept ==
    [][\A l \in Links :
          LET n == row[l].final_table_name IN
          Live(l) /\ n # 0 /\ owner[n] = l /\ owner'[n] # l =>
             \/ \E h \in Handlers : req[h].op = "delete" /\ req[h].link = l
             \/ \E r \in Runs : run[r].kind \in {"manual", "reimport"} /\ run[r].link = l
                                 /\ run[r].step \in {"drop", "failed"}]_platformVars

\* A dataset attached to a table found here has that table and its layer from the
\* moment its row appears, though both were looked at before the row was committed
\* (integrity_link_admin.py, _resolve_import_mode and _attach_layer).
AttachedComplete ==
    [][\A l \in Links :
          ~Live(l) /\ Live(l)' /\ row'[l].last_retrieval = Imported
             => /\ owner[row'[l].final_table_name] # NoLink
                /\ layer(l, row'[l].data_id) \in layers]_platformVars

\* Whatever runs inside the backend, it always comes back to accepting requests
\* (local_executor.py, _call_callback_async).
BackendAnswers == []<>(LoopFree /\ ~LoopHeld)

\* Every run that ended is answered for: its callback is handled, or lost with the
\* process that was to call it.
EndedRunsAnswered ==
    \A r \in Runs : run[r].step \in {"success", "failed"}
        ~> run[r].step \in {"over", "cancelled"}
=============================================================================
