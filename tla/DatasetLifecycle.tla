-------------------------- MODULE DatasetLifecycle --------------------------
(***************************************************************************)
(* A dataset from its import to its deletion: the backend routes, the      *)
(* Airflow DAGs they trigger and the callbacks these send back, acting     *)
(* concurrently on the state of DatasetState.                              *)
(***************************************************************************)
EXTENDS StagingRoutes, ElDags, DatasetDeletion

Next ==
    \/ StagingNext
    \/ ProcessNext
    \/ AirflowNext
    \/ DeletionNext

Spec == Init /\ [][Next]_vars

\* Airflow runs the tasks it scheduled and calls the callbacks, the backend
\* finishes the requests it started, the DAG processor parses the generator
\* again. Waiting requests are served in their order of arrival: a callback that
\* finds the event loop busy or every handler taken gets its turn although others
\* come and go, hence strong fairness. Nothing obliges a user to send a request nor a cron to fire.
Fairness ==
    /\ \A r \in Runs :
         /\ WF_vars(RunStep(r))
         /\ SF_vars(staging_dag_success_callback(r))
         /\ SF_vars(\E h \in Handlers : staging_dag_failure_callback(h, r))
         /\ SF_vars(\E h \in Handlers : process_dag_success_publish(h, r))
         /\ SF_vars(process_dag_failure_callback(r))
    /\ \A h \in Handlers :
         /\ WF_vars(edit_staging_trigger(h))
         /\ WF_vars(rollback_drop(h))
         /\ WF_vars(rollback_commit(h))
         /\ WF_vars(process_staging_data_commit(h))
         /\ WF_vars(process_dag_success_commit(h))
         /\ WF_vars(clear_schedule_commit(h))
         /\ WF_vars(delete_dataset_data(h))
         /\ WF_vars(delete_dataset_row(h))
    /\ \A l \in Links : WF_vars(load_scheduled_integrity_links(l))

FairSpec == Spec /\ Fairness

-----------------------------------------------------------------------------
(* Properties *)

Published(l) == Live(l) /\ row[l].last_retrieval # 0

BeingDeleted(l) ==
    \E h \in Handlers : req[h].link = l /\ req[h].op \in {"delete", "forget"}

\* By its owner's request.
Deleted(l) == row[l].state = "deleted"

\* Nothing is running or answering for a dataset any more.
AtRest(l) ==
    /\ \A h \in Handlers : req[h].link # l
    /\ \A r \in Runs : run[r].link = l => run[r].step \in {"over", "cancelled"}

TablesOf(l) == {n \in Names : owner[n] = l}

\* A callback of a failed staging is taking the dataset back.
RollingBack(l) ==
    \E h \in Handlers : req[h].link = l /\ req[h].op \in {"rollback", "discard"}

\* A published dataset disappears only because its owner deletes it: no staging failure
\* callback that looks at it, however late, sets out to take it back. One that looked
\* before the publication still does (staging.py, is_rerun).
PublishedSurvives ==
    [][\A l \in Links : Published(l) /\ ~RollingBack(l) =>
          /\ ~RollingBack(l)'
          /\ \/ Live(l)'
             \/ \E h \in Handlers : req[h].op = "forget" /\ req[h].link = l]_vars

\* The final table a dataset names never holds the rows of another dataset,
\* although names are chosen by looking at PostgreSQL tables and reserved later
\* by a UNIQUE column (process.py, get_available_table_name).
NoForeignData ==
    \A l \in Links : Live(l) /\ row[l].final_table_name # 0
        => owner[row[l].final_table_name] \in {l, NoLink}

\* The layer a dataset names (data_id) exists in GeoServer, unless the dataset is
\* being deleted (layer_publication.py, dataset_deletion_service.py step 2).
LayerBacksDataId ==
    \A l \in Links : Live(l) /\ row[l].data_id # 0 /\ ~BeingDeleted(l)
        => layer(l, row[l].data_id) \in layers

\* A refresh whose clean_staging_table_task did not itself raise leaves no temp_
\* staging table behind, unless the run was force-failed (transformation.py,
\* clean_on_failure).
NoTempLeak ==
    \A r \in temp : run[r].step \in {"transform", "clean", "cancelled"}

\* A final table disappears only with a dataset that is deleted, or by a processing
\* a user asked for: no scheduled run, failed or not, and no callback of one drops
\* the data it was to refresh (process.py dag_failure_callback).
RefreshKeepsTable ==
    [][\A n \in Names : owner[n] # NoLink /\ owner'[n] = NoLink =>
          \/ \E h \in Handlers : req[h].op = "delete" /\ req[h].final_table_name = n
          \/ \E r \in Runs : /\ run[r].kind = "manual"
                             /\ run[r].final_table_name = n
                             /\ run[r].step \in {"drop", "failed"}]_vars

\* A staging run that has not read its upload.
Loading(r) == run[r].kind = "staging" /\ run[r].step = "ingest"

\* A staging run has its upload on disk until it has read it, unless an earlier staging
\* of the dataset was still to be answered: only the callback of an earlier one, which
\* deletes the file the row names by then, ever takes it (staging.py,
\* _delete_temp_source_file).
UploadKeptForRun ==
    [][\A r \in Runs : Loading(r)' /\ ~source_reachable(r)' =>
          \/ Loading(r) /\ ~source_reachable(r)
          \/ \E s \in Runs : /\ s < r /\ run[s].kind = "staging"
                             /\ run[s].link = run[r].link
                             /\ run[s].step \in {"success", "failed"}
                             /\ run'[s].step = "over"]_vars

\* Nothing of a dataset is left in PostgreSQL.
NothingLeft(l) ==
    /\ TablesOf(l) = {}
    /\ \A r \in Runs : run[r].link = l =>
          run[r].source \notin staging /\ r \notin temp

\* What DELETE /integrity-link promises once nothing is in flight: no table of the
\* dataset remains, final, staging or temporary, whatever its runs left behind and
\* whichever names they took (dataset_deletion_service.py, delete_dataset).
DeletedLeavesNothing ==
    \A l \in Links : Deleted(l) /\ AtRest(l) => NothingLeft(l)

-----------------------------------------------------------------------------
(* What the types leave out, and the proofs need *)

\* A run belongs to a dataset; a run of staging_dag names the table it fills and
\* has no task of process_dag, a run of process_dag names its final table.
RunWellFormed(x) ==
    \/ x = NoRun
    \/ /\ x.kind # "none" /\ x.step # "none" /\ x.link \in Links
       /\ x.kind = "staging" => x.source # 0
                                /\ x.step \notin {"drop", "transform", "clean"}
       /\ x.kind # "staging" => x.final_table_name # 0

\* A request is about a dataset; it names the upload it stages, or the table it
\* processes or publishes and the run that wrote it.
RequestWellFormed(q) ==
    \/ q.op = "idle"
    \/ /\ q.link \in Links
       /\ q.op = "edit" => q.upload # 0
       /\ q.op \in {"process", "publish"} => q.final_table_name # 0
       /\ q.op = "publish" => q.run # 0

WellFormed ==
    /\ TypeOK
    /\ \A r \in Runs : RunWellFormed(run[r])
    /\ \A r \in Runs : r > lastRun => run[r] = NoRun
    /\ \A h \in Handlers : RequestWellFormed(req[h])

\* NoTempLeak made inductive: only runs that ingest again own a temp_ table.
TempInv ==
    \A r \in temp : re_ingests(r)
                    /\ run[r].step \in {"transform", "clean", "cancelled"}

-----------------------------------------------------------------------------
(* What users are promised *)

PhaseOf(l) ==
    CASE row[l].state \in {"unborn", "removed"} -> "absent"
      [] row[l].state = "rolled_back" -> "discarded"
      [] row[l].state = "deleted" -> "deleted"
      [] OTHER -> IF row[l].last_retrieval # 0 THEN "published" ELSE "draft"

DeletionsAsked ==
    {l \in Links : \E h \in Handlers : req[h].op \in {"delete", "forget"} /\ req[h].link = l}

RollbacksDecided == {l \in Links : RollingBack(l)}

Contract ==
    INSTANCE DatasetContract
    WITH phase <- [l \in Links |-> PhaseOf(l)],
         name  <- [l \in Links |-> IF Live(l) THEN row[l].final_table_name ELSE 0],
         asked <- DeletionsAsked,
         doomed <- RollbacksDecided

\* Requests, runs and callbacks, in whatever order, do to a dataset only what the
\* contract lets happen to it: none is taken back but by a decision made when it was a
\* draft, none is deleted unasked, and no name is given to two datasets of one
\* organization.
KeepsContract == Contract!Spec

-----------------------------------------------------------------------------
(* Liveness *)

\* When a run a user asked for has written its final table and succeeded, the row
\* learns it, unless the dataset is deleted (the callback path).
WrittenGetsRetrieved ==
    \A r \in Runs : run[r].kind = "manual" /\ run[r].step = "success"
        ~> (\E l \in Links : l = run[r].link
                /\ (row[l].last_retrieval # 0 \/ ~Live(l)))

\* A deleted dataset stops being refreshed for good.
DeletedStopsRunning ==
    \A l \in Links : Deleted(l)
        ~> [](~dag[l].parsed /\ \A r \in Runs : run[r].link = l => ~Active(r))
=============================================================================
