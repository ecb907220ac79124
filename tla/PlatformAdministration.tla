----------------------- MODULE PlatformAdministration -----------------------
(***************************************************************************)
(* api/routes/ingestion/integrity_link_admin.py and table_transfer.py: an  *)
(* administrator brings a dataset of another platform here (its record,    *)
(* its table, its row), or deletes one and keeps what is published. The    *)
(* dataset keeps its id, so a row that was removed here may come back.     *)
(***************************************************************************)
EXTENDS DatasetDeletion

\* Datasets that exist on another platform.
CONSTANT Exported

ASSUME ExportedAssumption == Exported \subseteq Links

\* Without a row here, and not deleted or taken back here with its table: the model
\* follows an id until then.
Importable(l) == l \in Exported /\ row[l].state \in {"unborn", "removed"}

\* Another tool (maelstro) copies the metadata record.
copy_record(l) ==
    /\ Importable(l)
    /\ records' = records \cup {l}
    /\ UNCHANGED <<backendVars, pgVars, layers, airflowVars, req>>

\* A live dataset names the table, whatever its organization.
name_used(n) == \E m \in Links : Live(m) /\ row[m].final_table_name = n

-----------------------------------------------------------------------------
(* PUT /data/{organization}/{final_table_name} *)

\* _table_data_status: the name alone is checked, before the body is received. What
\* is sent are the rows of a dataset to import.
import_table_data(h, l, n) ==
    /\ CanStart(h) /\ Importable(l)
    /\ ~name_used(n) /\ owner[n] = NoLink
    /\ req' = [req EXCEPT ![h] = [Idle EXCEPT !.op = "restore", !.link = l,
                                  !.final_table_name = n]]
    /\ UNCHANGED <<backendVars, pgVars, catalogVars, airflowVars>>

\* restore_table creates a table that exists.
restore_any(n) == TRUE

\* CREATE TABLE fails on a table made meanwhile.
can_restore(n) == owner[n] = NoLink

\* The body is received. One transaction creates the table with its rows, or
\* nothing when the table exists by now or the stream is rejected.
restore_table(h) ==
    LET n == req[h].final_table_name IN
    /\ req[h].op = "restore"
    /\ req' = [req EXCEPT ![h] = Idle]
    /\ \/ /\ can_restore(n)
          /\ owner' = [owner EXCEPT ![n] = req[h].link]
          /\ hollow' = hollow \ {n}
       \/ ("task" \in Faults \/ ~can_restore(n)) /\ UNCHANGED <<owner, hollow>>
    /\ UNCHANGED <<backendVars, staging, temp, catalogVars, airflowVars>>

-----------------------------------------------------------------------------
(* POST /import *)

\* _resolve_import_mode: a table that exists is attached, whoever's rows it holds,
\* and one that does not is made from the source again.
Attachable(n) == owner[n] # NoLink
Reprocessable(n) == owner[n] = NoLink /\ RunsLeft

Importing(h, l, n, attach) ==
    [req EXCEPT ![h] = [Idle EXCEPT !.op = "import", !.link = l,
                        !.final_table_name = n, !.flag = attach]]

\* The layer is taken for granted.
layer_assumed(l, n) == UNCHANGED layers

\* _attach_layer: the layer is there, or is published now.
attach_layer(l, n) == layers' = layers \cup {layer(l, n)}

\* import_integrity_link up to its commit. When GeoServer refuses the layer (502)
\* nothing is committed.
import_integrity_link(h, l, n) ==
    /\ CanStart(h) /\ Importable(l) /\ l \in records
    /\ ~name_used(n)
    /\ \/ /\ Attachable(n)
          /\ attach_layer(l, n)
          /\ req' = Importing(h, l, n, TRUE)
       \/ /\ Reprocessable(n)
          /\ req' = Importing(h, l, n, FALSE)
          /\ UNCHANGED layers
    /\ UNCHANGED <<backendVars, pgVars, records, airflowVars>>

\* With copy_recurrence the schedule comes with the row, which emits its DAG.
ImportedRow(n, attach, schedule) ==
    [ Blank EXCEPT !.state = "live", !.final_table_name = n, !.metadata_id = TRUE,
                   !.schedule = schedule,
                   !.data_id = IF attach THEN n ELSE 0,
                   !.last_retrieval = IF attach THEN Imported ELSE 0 ]

\* The schedules a dataset may come with.
Recurrence(l) == {schedule \in BOOLEAN : schedule => l \in Recurring}

ReimportRun(l, n) ==
    [ NoRun EXCEPT !.kind = "reimport", !.link = l, !.final_table_name = n,
                   !.step = "ingest" ]

\* The row is committed (or refused, another dataset having the name by now), and
\* _trigger_reprocess starts the run. When that raises the row is deleted again.
import_integrity_link_commit(h) ==
    LET l == req[h].link
        n == req[h].final_table_name
    IN
    /\ req[h].op = "import"
    /\ req' = [req EXCEPT ![h] = Idle]
    /\ \/ /\ ~name_taken(l, n) /\ req[h].flag
          /\ \E schedule \in Recurrence(l) :
                row' = [row EXCEPT ![l] = ImportedRow(n, TRUE, schedule)]
          /\ UNCHANGED <<run, lastRun>>
       \/ /\ ~name_taken(l, n) /\ ~req[h].flag
          /\ Trigger(ReimportRun(l, n))
          /\ \E schedule \in Recurrence(l) :
                row' = [row EXCEPT ![l] = IF lastRun' # lastRun
                                          THEN ImportedRow(n, FALSE, schedule)
                                          ELSE [Blank EXCEPT !.state = "removed"]]
       \/ name_taken(l, n) /\ UNCHANGED <<row, run, lastRun>>
    /\ UNCHANGED <<lastUpload, files, pgVars, catalogVars, dag>>

-----------------------------------------------------------------------------
(* DELETE /{integrity_link_id} of the administration, and every deletion without *)
(* Airflow. The layer and the final table stay unless delete_layer, the record   *)
(* unless delete_metadata.                                                       *)

\* Steps 4 to 6 of delete_dataset for a request that keeps the layer. With Airflow the
\* history is purged, as in delete_dataset_row.
remove_dataset(h, airflow) ==
    LET l == req[h].link IN
    /\ req[h].op = "remove"
    /\ staging' = staging \ {req[h].staging_table_name}
    /\ records' = IF req[h].flag THEN records \ {l} ELSE records
    /\ IF airflow THEN \E purged \in SUBSET Unfinished(l) : run' = Cancelled(purged)
                  ELSE UNCHANGED run
    /\ row' = [row EXCEPT ![l] = [Blank EXCEPT !.state = "removed"]]
    /\ req' = [req EXCEPT ![h] = Idle]
    /\ UNCHANGED <<lastUpload, files, temp, owner, hollow, layers, dag, lastRun>>

Deleting(h, l, delete_layer, delete_metadata) ==
    [req EXCEPT ![h] = [Idle EXCEPT !.op = IF delete_layer THEN "delete" ELSE "remove",
                        !.link = l, !.staging_table_name = row[l].staging_table_name,
                        !.final_table_name = row[l].final_table_name,
                        !.flag = delete_metadata /\ row[l].metadata_id]]

\* Steps 0 and 1 are made with Airflow only; the deletion ends there when the DAG
\* cannot be deleted.
delete_integrity_link_admin(h, l, airflow, delete_layer, delete_metadata) ==
    /\ CanStart(h) /\ Live(l) /\ MayAct(l)
    /\ \/ airflow /\ run' = Cancelled(runs_to_cancel(l))
       \/ (airflow => "cancel" \in Faults) /\ UNCHANGED run
    /\ dag' = IF airflow THEN [dag EXCEPT ![l] = NoDag] ELSE dag
    /\ req' = Deleting(h, l, delete_layer, delete_metadata)
    /\ UNCHANGED <<backendVars, pgVars, catalogVars, lastRun>>

AdministrationNext(airflow) ==
    \/ \E l \in Links : copy_record(l)
    \/ \E h \in Handlers, l \in Links, n \in Names : import_table_data(h, l, n)
    \/ \E h \in Handlers, l \in Links, n \in Names : import_integrity_link(h, l, n)
    \/ \E h \in Handlers, l \in Links, delete_layer, delete_metadata \in BOOLEAN :
          delete_integrity_link_admin(h, l, airflow, delete_layer, delete_metadata)

\* What requests in progress do next.
AdministrationGoesOn(airflow) ==
    \/ \E h \in Handlers : restore_table(h)
    \/ \E h \in Handlers : import_integrity_link_commit(h)
    \/ \E h \in Handlers : remove_dataset(h, airflow)
=============================================================================
