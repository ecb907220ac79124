---------------------------- MODULE StagingRoutes ----------------------------
(***************************************************************************)
(* api/routes/ingestion/staging.py: the requests that create a dataset or  *)
(* replace its source, and the two callbacks of staging_dag.               *)
(***************************************************************************)
EXTENDS DatasetState

StagingRun(l, u, isFile) ==
    [ NoRun EXCEPT !.kind = "staging", !.link = l, !.source = u,
                   !.is_file = isFile, !.step = "ingest" ]

\* A file is saved on the disk of the backend; any other source is only named, once
\* its parameters were accepted.
process_import_source(u, isFile) == files' = IF isFile THEN files \cup {u} ELSE files

\* An id that a uuid generator may give: nothing of it exists, and no request knows it.
fresh(l) ==
    /\ row[l].state = "unborn" /\ l \notin records
    /\ \A n \in Names : owner[n] # l
    /\ \A h \in Handlers : req[h].link # l

\* POST /ingestion/staging: the row is committed, then the run triggered; when
\* the executor raises, the row stays.
submit_staging(l, isFile) ==
    LET u == lastUpload + 1 IN
    /\ LoopFree
    /\ fresh(l)
    /\ lastUpload < MaxUploads /\ RunsLeft
    /\ lastUpload' = u
    /\ row' = [row EXCEPT ![l] = [Blank EXCEPT !.state = "live",
                                  !.staging_table_name = u, !.is_file = isFile]]
    /\ process_import_source(u, isFile)
    /\ Trigger(StagingRun(l, u, isFile))
    /\ UNCHANGED <<pgVars, catalogVars, dag, req>>

\* PUT /ingestion/staging/{id}, up to its commit: the row gets the new source
\* and the name of a staging table that does not exist yet.
edit_staging_commit(h, l, isFile) ==
    LET u == lastUpload + 1 IN
    /\ CanStart(h) /\ Live(l) /\ MayAct(l)
    /\ lastUpload < MaxUploads /\ RunsLeft
    /\ lastUpload' = u
    /\ row' = [row EXCEPT ![l] = [@ EXCEPT !.staging_table_name = u, !.is_file = isFile]]
    /\ process_import_source(u, isFile)
    /\ req' = [req EXCEPT ![h] = [Idle EXCEPT !.op = "edit", !.link = l, !.upload = u,
                                  !.staging_table_name = row[l].staging_table_name,
                                  !.flag = isFile]]
    /\ UNCHANGED <<pgVars, catalogVars, airflowVars>>

\* The rest of the same request: the former staging table is dropped and a run
\* triggered for the new one. Earlier runs of the dataset are not cancelled.
edit_staging_trigger(h) ==
    /\ req[h].op = "edit"
    /\ staging' = staging \ {req[h].staging_table_name}
    /\ Trigger(StagingRun(req[h].link, req[h].upload, req[h].flag))
    /\ req' = [req EXCEPT ![h] = Idle]
    /\ UNCHANGED <<backendVars, temp, owner, hollow, catalogVars, dag>>

\* The whole upload directory instead of one file.
clear_upload_directory(l) == {}

\* The callbacks read the row when they run, so the file they delete is the one
\* the row names by then.
delete_temp_source_file(l) ==
    IF row[l].is_file THEN files \ {row[l].staging_table_name} ELSE files

\* POST /internal/ingestion/staging/dag_success (a deleted row gives 404).
staging_dag_success_callback(r) ==
    LET l == run[r].link IN
    /\ LoopFree
    /\ run[r].kind = "staging" /\ run[r].step = "success"
    /\ run' = CallbackCalled(r)
    /\ files' = IF Live(l) THEN delete_temp_source_file(l) ELSE files
    /\ UNCHANGED <<row, lastUpload, pgVars, catalogVars, dag, lastRun, req>>

\* Every failed staging rolls its dataset back.
never_rerun(l) == FALSE

\* is_rerun: a dataset that was already processed outlives a failed re-staging.
is_rerun(l) == row[l].last_retrieval # 0

\* POST /internal/ingestion/staging/dag_failure, as far as it looks at the row: unless
\* the dataset was already processed by then, it is going to be taken back.
staging_dag_failure_callback(h, r) ==
    LET l == run[r].link IN
    /\ CanStart(h)
    /\ run[r].kind = "staging" /\ run[r].step = "failed"
    /\ run' = CallbackCalled(r)
    /\ files' = IF Live(l) THEN delete_temp_source_file(l) ELSE files
    /\ req' = IF Live(l) /\ ~is_rerun(l)
              THEN [req EXCEPT ![h] = [Idle EXCEPT !.op = "rollback", !.link = l,
                                       !.staging_table_name = row[l].staging_table_name]]
              ELSE req
    /\ UNCHANGED <<row, lastUpload, pgVars, catalogVars, dag, lastRun>>

\* The handler runs in a thread. The staging table the row named goes first.
rollback_drop(h) ==
    /\ req[h].op = "rollback"
    /\ staging' = staging \ {req[h].staging_table_name}
    /\ req' = [req EXCEPT ![h].op = "discard"]
    /\ UNCHANGED <<backendVars, temp, owner, hollow, catalogVars, airflowVars>>

\* Then the row, whatever was committed to it meanwhile.
rollback_commit(h) ==
    LET l == req[h].link IN
    /\ req[h].op = "discard"
    /\ row' = IF Live(l) THEN [row EXCEPT ![l] = [Blank EXCEPT !.state = "rolled_back"]]
                         ELSE row
    /\ req' = [req EXCEPT ![h] = Idle]
    /\ UNCHANGED <<lastUpload, files, pgVars, catalogVars, airflowVars>>

StagingNext ==
    \/ \E l \in Links, isFile \in BOOLEAN : submit_staging(l, isFile)
    \/ \E h \in Handlers, l \in Links, isFile \in BOOLEAN : edit_staging_commit(h, l, isFile)
    \/ \E h \in Handlers : edit_staging_trigger(h)
    \/ \E r \in Runs : staging_dag_success_callback(r)
    \/ \E h \in Handlers, r \in Runs : staging_dag_failure_callback(h, r)
    \/ \E h \in Handlers : rollback_drop(h)
    \/ \E h \in Handlers : rollback_commit(h)
=============================================================================
