---------------------------- MODULE ProcessRoutes ----------------------------
(***************************************************************************)
(* api/routes/ingestion/process.py: the request that turns a staging table *)
(* into a published dataset, and the two callbacks of process_dag.         *)
(***************************************************************************)
EXTENDS DatasetState

\* The first candidate that is not a table of the data schema, if there is one
\* within max_attempts.
get_available_table_name(l) ==
    {n \in Names : owner[n] = NoLink /\ \A m \in 1..(n - 1) : owner[m] # NoLink}

final_table_name_to_write(l) ==
    IF row[l].last_retrieval # 0 THEN {row[l].final_table_name} \ {0}
                                 ELSE get_available_table_name(l)

\* remove_ingestion_dag, called by clear_schedule when a schedule was set:
\* cancel_scheduled_runs then delete_dag, every error suppressed.
remove_ingestion_dag(l) ==
    \/ /\ run' = Cancelled({r \in Unfinished(l) : run[r].kind = "scheduled"})
       /\ dag' = [dag EXCEPT ![l] = NoDag]
    \/ "cancel" \in Faults /\ UNCHANGED <<run, dag>>

\* POST /ingestion/process, up to its commit: the table name is chosen, a
\* former schedule loses its DAG (not yet its row columns), and the metadata
\* record is created.
process_staging_data_prepare(h, l, recurrence) ==
    /\ CanStart(h) /\ Live(l) /\ MayProcess(l) /\ RunsLeft
    /\ recurrence => l \in Recurring
    /\ row[l].staging_table_name # 0
    /\ \E name \in final_table_name_to_write(l) :
         \/ /\ records' = IF row[l].metadata_id THEN records ELSE records \cup {l}
            /\ req' = [req EXCEPT ![h] =
                  [Idle EXCEPT !.op = "process", !.link = l,
                   !.staging_table_name = row[l].staging_table_name,
                   !.final_table_name = name, !.flag = recurrence]]
         \/ \* the record is refused: 500, nothing is committed
            /\ "record" \in Faults /\ ~row[l].metadata_id
            /\ UNCHANGED <<records, req>>
    /\ IF ~recurrence /\ row[l].schedule
       THEN remove_ingestion_dag(l)
       ELSE UNCHANGED <<run, dag>>
    /\ UNCHANGED <<backendVars, pgVars, layers, lastRun>>

\* The columns without their UNIQUE constraint.
no_uniqueness_check(l, name) == FALSE

\* (integrity_organization, final_table_name) is UNIQUE in integrity_link.
name_taken(l, name) ==
    \E m \in Links \ {l} :
        /\ Live(m) /\ row[m].final_table_name = name
        /\ integrity_organization[m] = integrity_organization[l]

ManualRun(h) ==
    LET l == req[h].link IN
    [ NoRun EXCEPT !.kind = "manual", !.link = l, !.source = req[h].staging_table_name,
                   !.is_file = row[l].is_file,
                   !.final_table_name = req[h].final_table_name,
                   !.step = IF row[l].last_retrieval # 0 THEN "drop" ELSE "transform" ]

\* The rest of the same request: commit, then trigger process_dag. The commit
\* fails when the row is gone or another dataset of the organization has the name.
process_staging_data_commit(h) ==
    LET l    == req[h].link
        name == req[h].final_table_name
    IN
    /\ req[h].op = "process"
    /\ req' = [req EXCEPT ![h] = Idle]
    /\ IF Live(l) /\ ~name_taken(l, name)
       THEN /\ row' = [row EXCEPT ![l] = [@ EXCEPT !.final_table_name = name,
                                                    !.schedule = req[h].flag,
                                                    !.metadata_id = TRUE]]
            /\ Trigger(ManualRun(h))
       ELSE UNCHANGED <<row, run, lastRun>>
    /\ UNCHANGED <<lastUpload, files, pgVars, catalogVars, dag>>

\* GeoServer publishes a table that exists; it keeps a layer it already has.
CanPublish(l, name) == owner[name] # NoLink \/ layer(l, name) \in layers

\* An import that gives its run no callback URL.
called_back_by_users == {"manual", "scheduled"}

\* The runs whose callbacks are those of process_dag.
ProcessKinds == {"manual", "scheduled", "reimport"}

\* POST /internal/ingestion/process/dag_success, up to its commit: the layer is
\* published, best-effort (a deleted row gives 404).
process_dag_success_publish(h, r) ==
    LET l    == run[r].link
        name == run[r].final_table_name
    IN
    /\ CanStart(h)
    /\ run[r].kind \in ProcessKinds /\ run[r].step = "success"
    /\ run' = CallbackCalled(r)
    /\ IF Live(l)
       THEN \E published \in BOOLEAN :
            /\ published => CanPublish(l, name)
            /\ ~published => "publish" \in Faults \/ ~CanPublish(l, name)
            /\ layers' = IF published THEN layers \cup {layer(l, name)} ELSE layers
            /\ req' = [req EXCEPT ![h] = [Idle EXCEPT !.op = "publish", !.link = l,
                          !.run = r, !.final_table_name = name, !.flag = published]]
       ELSE UNCHANGED <<layers, req>>
    /\ UNCHANGED <<backendVars, pgVars, records, dag, lastRun>>

\* The same columns without last_retrieval_timestamp, and with data_id set even
\* when the layer was not published.
retrieved_without_timestamp(h) ==
    [row[req[h].link] EXCEPT !.final_table_name = req[h].final_table_name,
                             !.data_id = IF req[h].flag THEN req[h].final_table_name ELSE @]
retrieved_with_any_layer(h) ==
    [row[req[h].link] EXCEPT !.final_table_name = req[h].final_table_name,
                             !.last_retrieval = req[h].run,
                             !.data_id = req[h].final_table_name]

\* The columns dag_success_callback writes; data_id only after a publication.
retrieved(h) ==
    LET l       == req[h].link
        name    == req[h].final_table_name
        data_id == IF req[h].flag THEN name ELSE row[l].data_id
    IN  [row[l] EXCEPT !.final_table_name = name, !.last_retrieval = req[h].run,
                       !.data_id = data_id]

\* The rest of the same request. The update of a row deleted meanwhile, and a
\* name another dataset committed meanwhile, make the commit fail.
process_dag_success_commit(h) ==
    LET l == req[h].link IN
    /\ req[h].op = "publish"
    /\ req' = [req EXCEPT ![h] = Idle]
    /\ row' = IF Live(l) /\ ~name_taken(l, req[h].final_table_name)
              THEN [row EXCEPT ![l] = retrieved(h)]
              ELSE row
    /\ UNCHANGED <<lastUpload, files, pgVars, catalogVars, airflowVars>>

\* The callback handles every run it is called for.
any_failure_callback(r) == TRUE

\* The failure callback URL of a scheduled run carries no dag_id and no
\* dag_run_id, which dag_failure_callback requires: it answers 422.
failure_callback_accepted(r) == run[r].kind # "scheduled"

\* POST /internal/ingestion/process/dag_failure: the final table is dropped, the
\* row is left as it is.
process_dag_failure_callback(r) ==
    LET name == run[r].final_table_name IN
    /\ LoopFree
    /\ run[r].kind \in ProcessKinds /\ run[r].step = "failed"
    /\ run' = CallbackCalled(r)
    /\ IF failure_callback_accepted(r) /\ Live(run[r].link)
       THEN owner' = [owner EXCEPT ![name] = NoLink] /\ hollow' = hollow \ {name}
       ELSE UNCHANGED <<owner, hollow>>
    /\ UNCHANGED <<backendVars, staging, temp, catalogVars, dag, lastRun, req>>

ProcessNext ==
    \/ \E h \in Handlers, l \in Links, recurrence \in BOOLEAN :
          process_staging_data_prepare(h, l, recurrence)
    \/ \E h \in Handlers : process_staging_data_commit(h)
    \/ \E h \in Handlers, r \in Runs : process_dag_success_publish(h, r)
    \/ \E h \in Handlers : process_dag_success_commit(h)
    \/ \E r \in Runs : process_dag_failure_callback(r)
=============================================================================
