--------------------------- MODULE DatasetDeletion ---------------------------
(***************************************************************************)
(* services/dataset_deletion_service.py and services/schedule_service.py   *)
(* with the routes that call them: deleting a dataset, setting and         *)
(* clearing its schedule.                                                  *)
(***************************************************************************)
EXTENDS ProcessRoutes

\* PATCH /integrity-link/{id}/schedule with a preset. The generator is what
\* makes a DAG of it.
update_schedule(l) ==
    /\ LoopFree
    /\ Live(l) /\ MayAct(l) /\ l \in Recurring /\ ~row[l].schedule
    /\ row' = [row EXCEPT ![l].schedule = TRUE]
    /\ UNCHANGED <<lastUpload, files, pgVars, catalogVars, airflowVars, req>>

\* DELETE /integrity-link/{id}/schedule (or PATCH without a preset), up to the
\* commit: the DAG goes first.
clear_schedule(h, l) ==
    /\ CanStart(h) /\ Live(l) /\ MayAct(l) /\ row[l].schedule
    /\ remove_ingestion_dag(l)
    /\ req' = [req EXCEPT ![h] = [Idle EXCEPT !.op = "unschedule", !.link = l]]
    /\ UNCHANGED <<backendVars, pgVars, catalogVars, lastRun>>

clear_schedule_commit(h) ==
    LET l == req[h].link IN
    /\ req[h].op = "unschedule"
    /\ req' = [req EXCEPT ![h] = Idle]
    /\ row' = IF Live(l) THEN [row EXCEPT ![l].schedule = FALSE] ELSE row
    /\ UNCHANGED <<lastUpload, files, pgVars, catalogVars, airflowVars>>

-----------------------------------------------------------------------------
(* delete_dataset *)

\* cancel_dataset_runs: every unfinished run of the dataset.
runs_to_cancel(l) == Unfinished(l)

\* DELETE /integrity-link/{id}, steps 0 and 1: in-flight runs are cancelled
\* (best-effort), then the ingestion DAG is deleted; when that fails the request
\* ends there. The handler keeps the columns it read.
delete_dataset_cancel(h, l) ==
    /\ CanStart(h) /\ Live(l) /\ MayAct(l)
    /\ \/ run' = Cancelled(runs_to_cancel(l))
       \/ "cancel" \in Faults /\ UNCHANGED run
    /\ \/ /\ dag' = [dag EXCEPT ![l] = NoDag]
          /\ req' = [req EXCEPT ![h] = [Idle EXCEPT !.op = "delete", !.link = l,
                        !.staging_table_name = row[l].staging_table_name,
                        !.final_table_name = row[l].final_table_name,
                        !.flag = row[l].metadata_id]]
       \/ "cancel" \in Faults /\ UNCHANGED <<dag, req>>
    /\ UNCHANGED <<backendVars, pgVars, catalogVars, lastRun>>

\* The final table is left in PostgreSQL.
keep_final_table(h) == {}

\* The table a deletion drops, the one the row named when the request read it.
final_tables_to_drop(h) ==
    IF req[h].final_table_name = 0 THEN {} ELSE {req[h].final_table_name}

\* Steps 2 to 4: the layer, the final table and the staging table the row named
\* when the request read it.
delete_dataset_data(h) ==
    LET l       == req[h].link
        dropped == final_tables_to_drop(h)
    IN
    /\ req[h].op = "delete"
    /\ layers' = layers \ {layer(l, n) : n \in dropped}
    /\ owner' = [n \in Names |-> IF n \in dropped THEN NoLink ELSE owner[n]]
    /\ hollow' = hollow \ dropped
    /\ staging' = staging \ {req[h].staging_table_name}
    /\ req' = [req EXCEPT ![h].op = "forget"]
    /\ UNCHANGED <<backendVars, temp, records, airflowVars>>

\* Steps 5 and 6: the record, the Airflow history, and the row. Deleting the
\* history of a run that is not over stops it, where Airflow accepts it.
delete_dataset_row(h) ==
    LET l == req[h].link IN
    /\ req[h].op = "forget"
    /\ records' = IF req[h].flag THEN records \ {l} ELSE records
    /\ \E purged \in SUBSET Unfinished(l) : run' = Cancelled(purged)
    /\ row' = [row EXCEPT ![l] = [Blank EXCEPT !.state = "deleted"]]
    /\ req' = [req EXCEPT ![h] = Idle]
    /\ UNCHANGED <<lastUpload, files, pgVars, layers, dag, lastRun>>

DeletionNext ==
    \/ \E l \in Links : update_schedule(l)
    \/ \E h \in Handlers, l \in Links : clear_schedule(h, l)
    \/ \E h \in Handlers : clear_schedule_commit(h)
    \/ \E h \in Handlers, l \in Links : delete_dataset_cancel(h, l)
    \/ \E h \in Handlers : delete_dataset_data(h)
    \/ \E h \in Handlers : delete_dataset_row(h)
=============================================================================
